---- MODULE Spec2Model ----
(***************************************************************************)
(* A model of the gopacket/layers protocol-enumeration registry            *)
(* (enums.go: EnumMetadata arrays, Decode/String/LayerType, decodeIPv4or6, *)
(* init) and of the capture-metadata header decoders (ciscoap.go,          *)
(* omnipeek.go, eapol.go).                                                 *)
(*                                                                         *)
(* A Go byte slice is modelled with its capacity: [arr, len] where arr     *)
(* holds the bytes from the slice's first element to the end of the        *)
(* backing array (cap = Len(arr)) and len is the slice length.  An index   *)
(* expression data[i] panics unless i < len; a slice expression            *)
(* data[lo:hi] panics unless lo <= hi <= cap.                              *)
(***************************************************************************)
EXTENDS Integers, Sequences, FiniteSets, TLC

VARIABLES
  metadata,  \* the eleven XxxMetadata arrays, by namespace
  omni,      \* an OmniPeek record a caller decodes into (DecodeFromBytes receiver)
  cisco,     \* a CiscoAP record
  eapol,     \* an EAPOL record
  key,       \* an EAPOLKey record
  res,       \* the last operation performed, its arguments and its outcome
  goroutines,  \* the decode call each goroutine is in, and its position in it
  heap       \* the layer records the running decode calls have allocated

vars == <<metadata, omni, cisco, eapol, key, res, goroutines, heap>>

-----------------------------------------------------------------------------
\* Bounds of the model.

\* codes 0..MaxProbe of every namespace are used as operation inputs
MaxProbe == 1
\* number of payload bytes that follow a header in the input buffers
MaxPayload == 2

-----------------------------------------------------------------------------
\* Enumeration constants (enums.go).

EthernetTypeLLC == 0
EthernetTypeIPv4 == 2048
EthernetTypeARP == 2054
EthernetTypeIPv6 == 34525
EthernetTypeCiscoDiscovery == 8192
EthernetTypeNortelDiscovery == 418
EthernetTypeTransparentEthernetBridging == 25944
EthernetTypeDot1Q == 33024
EthernetTypePPPoEDiscovery == 34915
EthernetTypePPPoESession == 34916
EthernetTypeMPLSUnicast == 34887
EthernetTypeMPLSMulticast == 34888
EthernetTypeEAPOL == 34958
EthernetTypeQinQ == 34984
EthernetTypeLinkLayerDiscovery == 35020
EthernetTypeEthernetCTP == 36864
IPProtocolIPv6HopByHop == 0
IPProtocolICMPv4 == 1
IPProtocolIGMP == 2
IPProtocolIPv4 == 4
IPProtocolTCP == 6
IPProtocolUDP == 17
IPProtocolRUDP == 27
IPProtocolIPv6 == 41
IPProtocolIPv6Routing == 43
IPProtocolIPv6Fragment == 44
IPProtocolGRE == 47
IPProtocolESP == 50
IPProtocolAH == 51
IPProtocolICMPv6 == 58
IPProtocolNoNextHeader == 59
IPProtocolIPv6Destination == 60
IPProtocolIPIP == 94
IPProtocolEtherIP == 97
IPProtocolVRRP == 112
IPProtocolSCTP == 132
IPProtocolUDPLite == 136
IPProtocolMPLSInIP == 137
LinkTypeNull == 0
LinkTypeEthernet == 1
LinkTypeTokenRing == 6
LinkTypeArcNet == 7
LinkTypeSLIP == 8
LinkTypePPP == 9
LinkTypeFDDI == 10
LinkTypeATM_RFC1483 == 100
LinkTypeRaw == 101
LinkTypePPP_HDLC == 50
LinkTypePPPEthernet == 51
LinkTypeC_HDLC == 104
LinkTypeIEEE802_11 == 105
LinkTypeFRelay == 107
LinkTypeLoop == 108
LinkTypeLinuxSLL == 113
LinkTypeLTalk == 104
LinkTypePFLog == 117
LinkTypePrismHeader == 119
LinkTypeIPOverFC == 122
LinkTypeSunATM == 123
LinkTypeIEEE80211Radio == 127
LinkTypeARCNetLinux == 129
LinkTypeLinuxIRDA == 144
LinkTypeLinuxLAPD == 177
LinkTypeLinuxUSB == 220
LinkTypeIPv4 == 228
LinkTypeIPv6 == 229
PPPoECodePADI == 9
PPPoECodePADO == 7
PPPoECodePADR == 25
PPPoECodePADS == 101
PPPoECodePADT == 167
PPPoECodeSession == 0
PPPTypeIPv4 == 33
PPPTypeIPv6 == 87
PPPTypeMPLSUnicast == 641
PPPTypeMPLSMulticast == 643
SCTPChunkTypeData == 0
SCTPChunkTypeInit == 1
SCTPChunkTypeInitAck == 2
SCTPChunkTypeSack == 3
SCTPChunkTypeHeartbeat == 4
SCTPChunkTypeHeartbeatAck == 5
SCTPChunkTypeAbort == 6
SCTPChunkTypeShutdown == 7
SCTPChunkTypeShutdownAck == 8
SCTPChunkTypeError == 9
SCTPChunkTypeCookieEcho == 10
SCTPChunkTypeCookieAck == 11
SCTPChunkTypeShutdownComplete == 14
FDDIFrameControlLLC == 80
EAPOLTypeEAP == 0
EAPOLTypeStart == 1
EAPOLTypeLogOff == 2
EAPOLTypeKey == 3
EAPOLTypeASFAlert == 4
ProtocolFamilyIPv4 == 2
ProtocolFamilyIPv6BSD == 24
ProtocolFamilyIPv6FreeBSD == 28
ProtocolFamilyIPv6Darwin == 30
ProtocolFamilyIPv6Linux == 10
Dot11TypeMgmt == 0
Dot11TypeCtrl == 1
Dot11TypeData == 2
Dot11TypeReserved == 3
Dot11TypeMgmtAssociationReq == 0
Dot11TypeMgmtAssociationResp == 4
Dot11TypeMgmtReassociationReq == 8
Dot11TypeMgmtReassociationResp == 12
Dot11TypeMgmtProbeReq == 16
Dot11TypeMgmtProbeResp == 20
Dot11TypeMgmtMeasurementPilot == 24
Dot11TypeMgmtBeacon == 32
Dot11TypeMgmtATIM == 36
Dot11TypeMgmtDisassociation == 40
Dot11TypeMgmtAuthentication == 44
Dot11TypeMgmtDeauthentication == 48
Dot11TypeMgmtAction == 52
Dot11TypeMgmtActionNoAck == 56
Dot11TypeCtrlWrapper == 29
Dot11TypeCtrlBlockAckReq == 33
Dot11TypeCtrlBlockAck == 37
Dot11TypeCtrlPowersavePoll == 41
Dot11TypeCtrlRTS == 45
Dot11TypeCtrlCTS == 49
Dot11TypeCtrlAck == 53
Dot11TypeCtrlCFEnd == 57
Dot11TypeCtrlCFEndAck == 61
Dot11TypeDataCFAck == 6
Dot11TypeDataCFPoll == 10
Dot11TypeDataCFAckPoll == 14
Dot11TypeDataNull == 18
Dot11TypeDataCFAckNoData == 22
Dot11TypeDataCFPollNoData == 26
Dot11TypeDataCFAckPollNoData == 30
Dot11TypeDataQOSData == 34
Dot11TypeDataQOSDataCFAck == 38
Dot11TypeDataQOSDataCFPoll == 42
Dot11TypeDataQOSDataCFAckPoll == 46
Dot11TypeDataQOSNull == 50
Dot11TypeDataQOSCFPollNoData == 58
Dot11TypeDataQOSCFAckPollNoData == 62
\* USBTransportType is declared outside enums.go; its codes are used by init.
USBTransportTypeInterrupt == 1
USBTransportTypeControl == 2
USBTransportTypeBulk == 3

-----------------------------------------------------------------------------
\* Values.

Pow2(n) == 2 ^ n

Digit == <<"0", "1", "2", "3", "4", "5", "6", "7", "8", "9">>

\* the decimal text of a non-negative integer, as the %d and %v verbs print it
RECURSIVE Decimal(_)
Decimal(n) ==
  IF n < 10 THEN Digit[n + 1] ELSE Decimal(n \div 10) \o Digit[(n % 10) + 1]

\* fmt.Sprintf / fmt.Errorf with one integer verb: format = <<before, after>>
Sprintf(format, n) == format[1] \o Decimal(n) \o format[2]

\* error values and the other ways a call can end
RetNil == [kind |-> "nil", text |-> ""]
RetPanic == [kind |-> "panic", text |-> "runtime error: index or slice bounds out of range"]
Errorf(format, n) == [kind |-> "error", text |-> Sprintf(format, n)]

\* a nil byte slice
NilSlice == [arr |-> <<>>, len |-> 0]

-----------------------------------------------------------------------------
\* The registry (enums.go).

Namespaces ==
  {"EthernetType", "IPProtocol", "SCTPChunkType", "PPPType", "PPPoECode",
   "LinkType", "FDDIFrameControl", "EAPOLType", "ProtocolFamily", "Dot11Type",
   "USBTransportType"}

\* width in bits of USBTransportType (declared outside enums.go)
USBTransportTypeWidth == 8

\* width in bits of each enumeration type
CodeWidth(ns) ==
  CASE ns \in {"EthernetType", "PPPType"} -> 16
    [] ns = "USBTransportType" -> USBTransportTypeWidth
    [] OTHER -> 8

MaxCode(ns) == Pow2(CodeWidth(ns)) - 1

\* faulty array declarations: each array has one slot for each code of its type
ArrayLenOfWidth(ns) == Pow2(CodeWidth(ns))

\* number of slots of each XxxMetadata array
ArrayLen(ns) ==
  CASE ns \in {"EthernetType", "PPPType"} -> 65536
    [] ns \in {"IPProtocol", "SCTPChunkType"} -> 265
    [] OTHER -> 256

\* EnumMetadata; a nil DecodeWith is "nil", the zero LayerType is "LayerTypeZero"
EnumMetadata(decodeWith, name, layerType) ==
  [DecodeWith |-> decodeWith, Name |-> name, LayerType |-> layerType]

ZeroMetadata == EnumMetadata("nil", "", "LayerTypeZero")

\* one assignment XxxMetadata[code] = EnumMetadata{...} of init
Asg(ns, code, decodeWith, name, layerType) ==
  [ns |-> ns, code |-> code, meta |-> EnumMetadata(decodeWith, name, layerType)]

\* the assignments of init, in program order
initAssignments ==
  <<
     Asg("EthernetType", EthernetTypeLLC, "decodeLLC", "LLC", "LayerTypeLLC"),
     Asg("EthernetType", EthernetTypeIPv4, "decodeIPv4", "IPv4", "LayerTypeIPv4"),
     Asg("EthernetType", EthernetTypeIPv6, "decodeIPv6", "IPv6", "LayerTypeIPv6"),
     Asg("EthernetType", EthernetTypeARP, "decodeARP", "ARP", "LayerTypeARP"),
     Asg("EthernetType", EthernetTypeDot1Q, "decodeDot1Q", "Dot1Q", "LayerTypeDot1Q"),
     Asg("EthernetType", EthernetTypePPPoEDiscovery, "decodePPPoE", "PPPoEDiscovery", "LayerTypePPPoE"),
     Asg("EthernetType", EthernetTypePPPoESession, "decodePPPoE", "PPPoESession", "LayerTypePPPoE"),
     Asg("EthernetType", EthernetTypeEthernetCTP, "decodeEthernetCTP", "EthernetCTP", "LayerTypeEthernetCTP"),
     Asg("EthernetType", EthernetTypeCiscoDiscovery, "decodeCiscoDiscovery", "CiscoDiscovery", "LayerTypeCiscoDiscovery"),
     Asg("EthernetType", EthernetTypeNortelDiscovery, "decodeNortelDiscovery", "NortelDiscovery", "LayerTypeNortelDiscovery"),
     Asg("EthernetType", EthernetTypeLinkLayerDiscovery, "decodeLinkLayerDiscovery", "LinkLayerDiscovery", "LayerTypeLinkLayerDiscovery"),
     Asg("EthernetType", EthernetTypeMPLSUnicast, "decodeMPLS", "MPLSUnicast", "LayerTypeMPLS"),
     Asg("EthernetType", EthernetTypeMPLSMulticast, "decodeMPLS", "MPLSMulticast", "LayerTypeMPLS"),
     Asg("EthernetType", EthernetTypeEAPOL, "decodeEAPOL", "EAPOL", "LayerTypeEAPOL"),
     Asg("EthernetType", EthernetTypeQinQ, "decodeDot1Q", "Dot1Q", "LayerTypeDot1Q"),
     Asg("EthernetType", EthernetTypeTransparentEthernetBridging, "decodeEthernet", "TransparentEthernetBridging", "LayerTypeEthernet"),
     Asg("IPProtocol", IPProtocolIPv4, "decodeIPv4", "IPv4", "LayerTypeIPv4"),
     Asg("IPProtocol", IPProtocolTCP, "decodeTCP", "TCP", "LayerTypeTCP"),
     Asg("IPProtocol", IPProtocolUDP, "decodeUDP", "UDP", "LayerTypeUDP"),
     Asg("IPProtocol", IPProtocolICMPv4, "decodeICMPv4", "ICMPv4", "LayerTypeICMPv4"),
     Asg("IPProtocol", IPProtocolICMPv6, "decodeICMPv6", "ICMPv6", "LayerTypeICMPv6"),
     Asg("IPProtocol", IPProtocolSCTP, "decodeSCTP", "SCTP", "LayerTypeSCTP"),
     Asg("IPProtocol", IPProtocolIPv6, "decodeIPv6", "IPv6", "LayerTypeIPv6"),
     Asg("IPProtocol", IPProtocolIPIP, "decodeIPv4", "IPv4", "LayerTypeIPv4"),
     Asg("IPProtocol", IPProtocolEtherIP, "decodeEtherIP", "EtherIP", "LayerTypeEtherIP"),
     Asg("IPProtocol", IPProtocolRUDP, "decodeRUDP", "RUDP", "LayerTypeRUDP"),
     Asg("IPProtocol", IPProtocolGRE, "decodeGRE", "GRE", "LayerTypeGRE"),
     Asg("IPProtocol", IPProtocolIPv6HopByHop, "decodeIPv6HopByHop", "IPv6HopByHop", "LayerTypeIPv6HopByHop"),
     Asg("IPProtocol", IPProtocolIPv6Routing, "decodeIPv6Routing", "IPv6Routing", "LayerTypeIPv6Routing"),
     Asg("IPProtocol", IPProtocolIPv6Fragment, "decodeIPv6Fragment", "IPv6Fragment", "LayerTypeIPv6Fragment"),
     Asg("IPProtocol", IPProtocolIPv6Destination, "decodeIPv6Destination", "IPv6Destination", "LayerTypeIPv6Destination"),
     Asg("IPProtocol", IPProtocolAH, "decodeIPSecAH", "IPSecAH", "LayerTypeIPSecAH"),
     Asg("IPProtocol", IPProtocolESP, "decodeIPSecESP", "IPSecESP", "LayerTypeIPSecESP"),
     Asg("IPProtocol", IPProtocolUDPLite, "decodeUDPLite", "UDPLite", "LayerTypeUDPLite"),
     Asg("IPProtocol", IPProtocolMPLSInIP, "decodeMPLS", "MPLS", "LayerTypeMPLS"),
     Asg("IPProtocol", IPProtocolNoNextHeader, "DecodePayload", "NoNextHeader", "LayerTypePayload"),
     Asg("IPProtocol", IPProtocolIGMP, "decodeIGMP", "IGMP", "LayerTypeIGMP"),
     Asg("IPProtocol", IPProtocolVRRP, "decodeVRRP", "VRRP", "LayerTypeVRRP"),
     Asg("SCTPChunkType", SCTPChunkTypeData, "decodeSCTPData", "Data", "LayerTypeZero"),
     Asg("SCTPChunkType", SCTPChunkTypeInit, "decodeSCTPInit", "Init", "LayerTypeZero"),
     Asg("SCTPChunkType", SCTPChunkTypeInitAck, "decodeSCTPInit", "InitAck", "LayerTypeZero"),
     Asg("SCTPChunkType", SCTPChunkTypeSack, "decodeSCTPSack", "Sack", "LayerTypeZero"),
     Asg("SCTPChunkType", SCTPChunkTypeHeartbeat, "decodeSCTPHeartbeat", "Heartbeat", "LayerTypeZero"),
     Asg("SCTPChunkType", SCTPChunkTypeHeartbeatAck, "decodeSCTPHeartbeat", "HeartbeatAck", "LayerTypeZero"),
     Asg("SCTPChunkType", SCTPChunkTypeAbort, "decodeSCTPError", "Abort", "LayerTypeZero"),
     Asg("SCTPChunkType", SCTPChunkTypeError, "decodeSCTPError", "Error", "LayerTypeZero"),
     Asg("SCTPChunkType", SCTPChunkTypeShutdown, "decodeSCTPShutdown", "Shutdown", "LayerTypeZero"),
     Asg("SCTPChunkType", SCTPChunkTypeShutdownAck, "decodeSCTPShutdownAck", "ShutdownAck", "LayerTypeZero"),
     Asg("SCTPChunkType", SCTPChunkTypeCookieEcho, "decodeSCTPCookieEcho", "CookieEcho", "LayerTypeZero"),
     Asg("SCTPChunkType", SCTPChunkTypeCookieAck, "decodeSCTPEmptyLayer", "CookieAck", "LayerTypeZero"),
     Asg("SCTPChunkType", SCTPChunkTypeShutdownComplete, "decodeSCTPEmptyLayer", "ShutdownComplete", "LayerTypeZero"),
     Asg("PPPType", PPPTypeIPv4, "decodeIPv4", "IPv4", "LayerTypeZero"),
     Asg("PPPType", PPPTypeIPv6, "decodeIPv6", "IPv6", "LayerTypeZero"),
     Asg("PPPType", PPPTypeMPLSUnicast, "decodeMPLS", "MPLSUnicast", "LayerTypeZero"),
     Asg("PPPType", PPPTypeMPLSMulticast, "decodeMPLS", "MPLSMulticast", "LayerTypeZero"),
     Asg("PPPoECode", PPPoECodeSession, "decodePPP", "PPP", "LayerTypeZero"),
     Asg("LinkType", LinkTypeEthernet, "decodeEthernet", "Ethernet", "LayerTypeZero"),
     Asg("LinkType", LinkTypePPP, "decodePPP", "PPP", "LayerTypeZero"),
     Asg("LinkType", LinkTypeFDDI, "decodeFDDI", "FDDI", "LayerTypeZero"),
     Asg("LinkType", LinkTypeNull, "decodeLoopback", "Null", "LayerTypeZero"),
     Asg("LinkType", LinkTypeLoop, "decodeLoopback", "Loop", "LayerTypeZero"),
     Asg("LinkType", LinkTypeRaw, "decodeIPv4or6", "Raw", "LayerTypeZero"),
     Asg("LinkType", LinkTypePFLog, "decodePFLog", "PFLog", "LayerTypeZero"),
     Asg("LinkType", LinkTypeIEEE80211Radio, "decodeRadioTap", "RadioTap", "LayerTypeZero"),
     Asg("LinkType", LinkTypeLinuxUSB, "decodeUSB", "USB", "LayerTypeZero"),
     Asg("LinkType", LinkTypeLinuxSLL, "decodeLinuxSLL", "Linux SLL", "LayerTypeZero"),
     Asg("LinkType", LinkTypePrismHeader, "decodePrismHeader", "Prism", "LayerTypeZero"),
     Asg("FDDIFrameControl", FDDIFrameControlLLC, "decodeLLC", "LLC", "LayerTypeZero"),
     Asg("EAPOLType", EAPOLTypeEAP, "decodeEAP", "EAP", "LayerTypeEAP"),
     Asg("ProtocolFamily", ProtocolFamilyIPv4, "decodeIPv4", "IPv4", "LayerTypeIPv4"),
     Asg("ProtocolFamily", ProtocolFamilyIPv6BSD, "decodeIPv6", "IPv6", "LayerTypeIPv6"),
     Asg("ProtocolFamily", ProtocolFamilyIPv6FreeBSD, "decodeIPv6", "IPv6", "LayerTypeIPv6"),
     Asg("ProtocolFamily", ProtocolFamilyIPv6Darwin, "decodeIPv6", "IPv6", "LayerTypeIPv6"),
     Asg("ProtocolFamily", ProtocolFamilyIPv6Linux, "decodeIPv6", "IPv6", "LayerTypeIPv6"),
     Asg("Dot11Type", Dot11TypeMgmtAssociationReq, "decodeDot11MgmtAssociationReq", "MgmtAssociationReq", "LayerTypeDot11MgmtAssociationReq"),
     Asg("Dot11Type", Dot11TypeMgmtAssociationResp, "decodeDot11MgmtAssociationResp", "MgmtAssociationResp", "LayerTypeDot11MgmtAssociationResp"),
     Asg("Dot11Type", Dot11TypeMgmtReassociationReq, "decodeDot11MgmtReassociationReq", "MgmtReassociationReq", "LayerTypeDot11MgmtReassociationReq"),
     Asg("Dot11Type", Dot11TypeMgmtReassociationResp, "decodeDot11MgmtReassociationResp", "MgmtReassociationResp", "LayerTypeDot11MgmtReassociationResp"),
     Asg("Dot11Type", Dot11TypeMgmtProbeReq, "decodeDot11MgmtProbeReq", "MgmtProbeReq", "LayerTypeDot11MgmtProbeReq"),
     Asg("Dot11Type", Dot11TypeMgmtProbeResp, "decodeDot11MgmtProbeResp", "MgmtProbeResp", "LayerTypeDot11MgmtProbeResp"),
     Asg("Dot11Type", Dot11TypeMgmtMeasurementPilot, "decodeDot11MgmtMeasurementPilot", "MgmtMeasurementPilot", "LayerTypeDot11MgmtMeasurementPilot"),
     Asg("Dot11Type", Dot11TypeMgmtBeacon, "decodeDot11MgmtBeacon", "MgmtBeacon", "LayerTypeDot11MgmtBeacon"),
     Asg("Dot11Type", Dot11TypeMgmtATIM, "decodeDot11MgmtATIM", "MgmtATIM", "LayerTypeDot11MgmtATIM"),
     Asg("Dot11Type", Dot11TypeMgmtDisassociation, "decodeDot11MgmtDisassociation", "MgmtDisassociation", "LayerTypeDot11MgmtDisassociation"),
     Asg("Dot11Type", Dot11TypeMgmtAuthentication, "decodeDot11MgmtAuthentication", "MgmtAuthentication", "LayerTypeDot11MgmtAuthentication"),
     Asg("Dot11Type", Dot11TypeMgmtDeauthentication, "decodeDot11MgmtDeauthentication", "MgmtDeauthentication", "LayerTypeDot11MgmtDeauthentication"),
     Asg("Dot11Type", Dot11TypeMgmtAction, "decodeDot11MgmtAction", "MgmtAction", "LayerTypeDot11MgmtAction"),
     Asg("Dot11Type", Dot11TypeMgmtActionNoAck, "decodeDot11MgmtActionNoAck", "MgmtActionNoAck", "LayerTypeDot11MgmtActionNoAck"),
     Asg("Dot11Type", Dot11TypeCtrlWrapper, "decodeDot11Ctrl", "CtrlWrapper", "LayerTypeDot11Ctrl"),
     Asg("Dot11Type", Dot11TypeCtrlBlockAckReq, "decodeDot11CtrlBlockAckReq", "CtrlBlockAckReq", "LayerTypeDot11CtrlBlockAckReq"),
     Asg("Dot11Type", Dot11TypeCtrlBlockAck, "decodeDot11CtrlBlockAck", "CtrlBlockAck", "LayerTypeDot11CtrlBlockAck"),
     Asg("Dot11Type", Dot11TypeCtrlPowersavePoll, "decodeDot11CtrlPowersavePoll", "CtrlPowersavePoll", "LayerTypeDot11CtrlPowersavePoll"),
     Asg("Dot11Type", Dot11TypeCtrlRTS, "decodeDot11CtrlRTS", "CtrlRTS", "LayerTypeDot11CtrlRTS"),
     Asg("Dot11Type", Dot11TypeCtrlCTS, "decodeDot11CtrlCTS", "CtrlCTS", "LayerTypeDot11CtrlCTS"),
     Asg("Dot11Type", Dot11TypeCtrlAck, "decodeDot11CtrlAck", "CtrlAck", "LayerTypeDot11CtrlAck"),
     Asg("Dot11Type", Dot11TypeCtrlCFEnd, "decodeDot11CtrlCFEnd", "CtrlCFEnd", "LayerTypeDot11CtrlCFEnd"),
     Asg("Dot11Type", Dot11TypeCtrlCFEndAck, "decodeDot11CtrlCFEndAck", "CtrlCFEndAck", "LayerTypeDot11CtrlCFEndAck"),
     Asg("Dot11Type", Dot11TypeData, "decodeDot11Data", "Data", "LayerTypeDot11Data"),
     Asg("Dot11Type", Dot11TypeDataCFAck, "decodeDot11DataCFAck", "DataCFAck", "LayerTypeDot11DataCFAck"),
     Asg("Dot11Type", Dot11TypeDataCFPoll, "decodeDot11DataCFPoll", "DataCFPoll", "LayerTypeDot11DataCFPoll"),
     Asg("Dot11Type", Dot11TypeDataCFAckPoll, "decodeDot11DataCFAckPoll", "DataCFAckPoll", "LayerTypeDot11DataCFAckPoll"),
     Asg("Dot11Type", Dot11TypeDataNull, "decodeDot11DataNull", "DataNull", "LayerTypeDot11DataNull"),
     Asg("Dot11Type", Dot11TypeDataCFAckNoData, "decodeDot11DataCFAckNoData", "DataCFAckNoData", "LayerTypeDot11DataCFAckNoData"),
     Asg("Dot11Type", Dot11TypeDataCFPollNoData, "decodeDot11DataCFPollNoData", "DataCFPollNoData", "LayerTypeDot11DataCFPollNoData"),
     Asg("Dot11Type", Dot11TypeDataCFAckPollNoData, "decodeDot11DataCFAckPollNoData", "DataCFAckPollNoData", "LayerTypeDot11DataCFAckPollNoData"),
     Asg("Dot11Type", Dot11TypeDataQOSData, "decodeDot11DataQOSData", "DataQOSData", "LayerTypeDot11DataQOSData"),
     Asg("Dot11Type", Dot11TypeDataQOSDataCFAck, "decodeDot11DataQOSDataCFAck", "DataQOSDataCFAck", "LayerTypeDot11DataQOSDataCFAck"),
     Asg("Dot11Type", Dot11TypeDataQOSDataCFPoll, "decodeDot11DataQOSDataCFPoll", "DataQOSDataCFPoll", "LayerTypeDot11DataQOSDataCFPoll"),
     Asg("Dot11Type", Dot11TypeDataQOSDataCFAckPoll, "decodeDot11DataQOSDataCFAckPoll", "DataQOSDataCFAckPoll", "LayerTypeDot11DataQOSDataCFAckPoll"),
     Asg("Dot11Type", Dot11TypeDataQOSNull, "decodeDot11DataQOSNull", "DataQOSNull", "LayerTypeDot11DataQOSNull"),
     Asg("Dot11Type", Dot11TypeDataQOSCFPollNoData, "decodeDot11DataQOSCFPollNoData", "DataQOSCFPollNoData", "LayerTypeDot11DataQOSCFPollNoData"),
     Asg("Dot11Type", Dot11TypeDataQOSCFAckPollNoData, "decodeDot11DataQOSCFAckPollNoData", "DataQOSCFAckPollNoData", "LayerTypeDot11DataQOSCFAckPollNoData"),
     Asg("USBTransportType", USBTransportTypeInterrupt, "decodeUSBInterrupt", "Interrupt", "LayerTypeUSBInterrupt"),
     Asg("USBTransportType", USBTransportTypeControl, "decodeUSBControl", "Control", "LayerTypeUSBControl"),
     Asg("USBTransportType", USBTransportTypeBulk, "decodeUSBBulk", "Bulk", "LayerTypeUSBBulk")
  >>

\* codes that init assigns in namespace ns
InitCodes(ns) ==
  {initAssignments[i].code : i \in {j \in DOMAIN initAssignments : initAssignments[j].ns = ns}}

\* one built-in or named code per namespace, used as operation input
SampleCodes(ns) ==
  CASE ns = "EthernetType" -> {EthernetTypeEAPOL}
    [] ns = "IPProtocol" -> {IPProtocolTCP}
    [] ns = "SCTPChunkType" -> {SCTPChunkTypeShutdownComplete}
    [] ns = "PPPType" -> {PPPTypeIPv4}
    [] ns = "PPPoECode" -> {PPPoECodePADI}
    [] ns = "LinkType" -> {LinkTypeRaw}
    [] ns = "FDDIFrameControl" -> {FDDIFrameControlLLC}
    [] ns = "EAPOLType" -> {EAPOLTypeKey}
    [] ns = "ProtocolFamily" -> {ProtocolFamilyIPv4}
    [] ns = "Dot11Type" -> {Dot11TypeMgmtBeacon}
    [] OTHER -> {USBTransportTypeBulk}

\* the codes operations are called with
CodeInputs(ns) == (0 .. MaxProbe) \cup SampleCodes(ns) \cup {MaxCode(ns)}

\* The slots of an array the model keeps: those its operations read or write.
\* No operation of the model reads or writes any other slot.
Slots(ns) == CodeInputs(ns)

\* the arrays as the Go runtime zero-initialises them
ZeroArrays == [ns \in Namespaces |-> [c \in Slots(ns) |-> ZeroMetadata]]

\* XxxMetadata[code] = meta
StoreSlot(arrays, ns, code, meta) ==
  [arrays EXCEPT ![ns] = [@ EXCEPT ![code] = meta]]

\* a faulty field override: the whole slot is replaced
StoreDecodeWithWholeSlot(arrays, ns, code, decodeWith) ==
  [arrays EXCEPT ![ns] = [@ EXCEPT ![code] = EnumMetadata(decodeWith, "", "LayerTypeZero")]]

\* XxxMetadata[code].DecodeWith = decodeWith
StoreDecodeWith(arrays, ns, code, decodeWith) ==
  [arrays EXCEPT ![ns] = [@ EXCEPT ![code] = [@ EXCEPT !.DecodeWith = decodeWith]]]

\* a faulty init: each assignment stores the decoder and the layer type, and
\* leaves the name of the slot empty
ApplyAssignmentsNameless(arrays, asgs) ==
  [ns \in DOMAIN arrays |->
     [code \in DOMAIN arrays[ns] |->
        LET writes == {i \in 1 .. Len(asgs) : asgs[i].ns = ns /\ asgs[i].code = code}
        IN IF writes = {} THEN arrays[ns][code]
           ELSE [asgs[CHOOSE i \in writes : \A j \in writes : j <= i].meta EXCEPT !.Name = ""]]]

\* the assignments asgs, in order, on the slots that arrays keeps: a slot
\* holds what the last assignment to it stored
ApplyAssignments(arrays, asgs) ==
  [ns \in DOMAIN arrays |->
     [code \in DOMAIN arrays[ns] |->
        LET writes == {i \in 1 .. Len(asgs) : asgs[i].ns = ns /\ asgs[i].code = code}
        IN IF writes = {} THEN arrays[ns][code]
           ELSE asgs[CHOOSE i \in writes : \A j \in writes : j <= i].meta]]

\* the arrays after func init()
InitArrays == ApplyAssignments(ZeroArrays, initAssignments)

\* USBTransportType's methods are declared outside enums.go
USBTransportTypeMethods == {"Decode", "String", "LayerType"}
usbUnknownFormat == <<"UnknownUSBTransportType(", ")">>
usbUnableFormat == <<"Unable to decode USB transport type ", "">>

\* the enumeration types of enums.go that have a LayerType method
LayerTypeMethods == {"EthernetType", "IPProtocol", "EAPOLType", "ProtocolFamily", "Dot11Type"}
\* the enumeration types of enums.go that have a Decode and a String method
DecodeMethods == Namespaces \ {"USBTransportType"}
StringMethods == Namespaces \ {"USBTransportType"}

HasMethod(ns, method) ==
  IF ns = "USBTransportType" THEN method \in USBTransportTypeMethods
  ELSE CASE method = "Decode" -> ns \in DecodeMethods
         [] method = "String" -> ns \in StringMethods
         [] OTHER -> ns \in LayerTypeMethods

\* the format of String()'s fallback, per type
unknownFormat(ns) ==
  CASE ns = "EthernetType" -> <<"UnknownEthernetType(", ")">>
    [] ns = "IPProtocol" -> <<"UnknownIPProtocol(", ")">>
    [] ns = "SCTPChunkType" -> <<"UnknownSCTPChunkType(", ")">>
    [] ns = "PPPType" -> <<"UnknownPPPType(", ")">>
    [] ns = "LinkType" -> <<"UnknownLinkType(", ")">>
    [] ns = "PPPoECode" -> <<"UnknownPPPoECode(", ")">>
    [] ns = "FDDIFrameControl" -> <<"UnknownFDDIFrameControl(", ")">>
    [] ns = "EAPOLType" -> <<"UnknownEAPOLType(", ")">>
    [] ns = "ProtocolFamily" -> <<"UnknownProtocolFamily(", ")">>
    [] ns = "Dot11Type" -> <<"UnknownDot11Type(", ")">>
    [] OTHER -> usbUnknownFormat

\* the format of Decode()'s error, per type
unableFormat(ns) ==
  CASE ns = "EthernetType" -> <<"Unable to decode ethernet type ", "">>
    [] ns = "IPProtocol" -> <<"Unable to decode IP protocol ", "">>
    [] ns = "SCTPChunkType" -> <<"Unable to decode SCTP chunk type ", "">>
    [] ns = "PPPType" -> <<"Unable to decode PPP type ", "">>
    [] ns = "LinkType" -> <<"Unable to decode link type ", "">>
    [] ns = "PPPoECode" -> <<"Unable to decode PPPoE code ", "">>
    [] ns = "FDDIFrameControl" -> <<"Unable to decode FDDI frame control ", "">>
    [] ns = "EAPOLType" -> <<"Unable to decode EAPOL type ", "">>
    [] ns = "ProtocolFamily" -> <<"Unable to decode protocol family ", "">>
    [] ns = "Dot11Type" -> <<"Unable to decode Dot11 type ", "">>
    [] OTHER -> usbUnableFormat

\* a faulty String: no fallback for a slot without a name
EnumStringNoFallback(arrays, ns, a) == arrays[ns][a].Name

\* (a Xxx) String()
EnumString(arrays, ns, a) ==
  IF arrays[ns][a].Name # "" THEN arrays[ns][a].Name
  ELSE Sprintf(unknownFormat(ns), a)

\* (a Xxx) LayerType()
EnumLayerType(arrays, ns, a) == arrays[ns][a].LayerType

-----------------------------------------------------------------------------
\* Byte slices and encoding/binary.

Cap(data) == Len(data.arr)

\* the bytes a slice holds
Bytes(data) == SubSeq(data.arr, 1, data.len)

\* data[i] does not panic
CanIndex(data, i) == i < data.len

\* data[lo:hi] does not panic
CanSlice(data, lo, hi) == lo <= hi /\ hi <= Cap(data)

\* data[i]
Index(data, i) == data.arr[i + 1]

\* a faulty slice expression: the bytes are copied into an array of their own
SliceCopy(data, lo, hi) == [arr |-> SubSeq(data.arr, lo + 1, hi), len |-> hi - lo]

\* data[lo:hi]
Slice(data, lo, hi) == [arr |-> SubSeq(data.arr, lo + 1, Cap(data)), len |-> hi - lo]

\* binary.BigEndian.Uint16 / Uint32 of a byte sequence
RECURSIVE BigEndian(_)
BigEndian(b) ==
  IF b = <<>> THEN 0 ELSE BigEndian(SubSeq(b, 1, Len(b) - 1)) * 256 + b[Len(b)]

\* n as k bytes, most significant first
RECURSIVE PutBigEndian(_, _)
PutBigEndian(n, k) ==
  IF k = 0 THEN <<>> ELSE PutBigEndian(n \div 256, k - 1) \o <<n % 256>>

\* binary.BigEndian.Uint32(b) == n for a constant n.  The first byte of a buffer
\* may be any byte, and TLC's integers end below 2^31, so the four bytes are
\* compared with the bytes of n: the encoding is one to one.
Uint32Is(b, n) == b = PutBigEndian(n, 4)

\* binary.LittleEndian.Uint16 of a byte sequence
RECURSIVE LittleEndian(_)
LittleEndian(b) ==
  IF b = <<>> THEN 0 ELSE b[1] + 256 * LittleEndian(Tail(b))

\* a faulty int8 conversion: the byte stays unsigned
Int8Unsigned(x) == x

\* the conversions int8(x) of a byte and int16(x) of a uint16
Int8(x) == IF x >= 128 THEN x - 256 ELSE x
Int16(x) == IF x >= 32768 THEN x - 65536 ELSE x

\* a faulty field extraction: the mask is not shifted
ShiftAndUnshifted(x, n, mask) == x % (mask + 1)

\* (x >> n) & mask, for a mask of the form 2^k - 1
ShiftAnd(x, n, mask) == (x \div Pow2(n)) % (mask + 1)

\* time.Unix(sec, nsec); the zero time.Time is ZeroTime
ZeroTime == [wall |-> "zero", sec |-> 0, nsec |-> 0]
Unix(sec, nsec) ==
  [wall |-> "unix", sec |-> sec + (nsec \div 1000000000), nsec |-> nsec % 1000000000]
\* quotient and remainder of the big-endian value of the bytes b by n, formed
\* byte by byte: the value itself may be beyond TLC's integers
RECURSIVE DivMod(_, _)
DivMod(b, n) ==
  IF b = <<>> THEN [q |-> 0, r |-> 0]
  ELSE LET p == DivMod(SubSeq(b, 1, Len(b) - 1), n)
           x == p.r * 256 + b[Len(b)]
       IN [q |-> p.q * 256 + (x \div n), r |-> x % n]

\* a faulty timestamp: the field is taken for milliseconds
UnixMillis(secs, usecs) == Unix(secs + DivMod(usecs, 1000).q, DivMod(usecs, 1000).r * 1000000)

\* time.Unix(int64(secs), int64(usecs)*1000), usecs given as the four bytes of
\* the uint32: the 64-bit product is formed as whole seconds and the rest
UnixMicros(secs, usecs) ==
  Unix(secs + DivMod(usecs, 1000000).q, DivMod(usecs, 1000000).r * 1000)

-----------------------------------------------------------------------------
\* The assignments of a DecodeFromBytes body, executed in program order.  A
\* statement is [k, f, lo, hi, conv]: the kind of read, the field assigned,
\* the offsets read and the conversion applied.

IndexStmt(f, i, conv) == [k |-> "index", f |-> f, lo |-> i, hi |-> i + 1, conv |-> conv]
BigEndianStmt(f, lo, n, conv) == [k |-> "be", f |-> f, lo |-> lo, hi |-> lo + n, conv |-> conv]
LittleEndianStmt(f, lo, n) == [k |-> "le", f |-> f, lo |-> lo, hi |-> lo + n, conv |-> "uint"]
SliceStmt(f, lo, n) == [k |-> "slice", f |-> f, lo |-> lo, hi |-> lo + n, conv |-> "none"]
ConstStmt(f, v) == [k |-> "const", f |-> f, lo |-> v, hi |-> v, conv |-> "none"]
\* f = int((KeyInfo >> n) & mask)
BitsStmt(f, n, mask) == [k |-> "bits", f |-> f, lo |-> n, hi |-> mask, conv |-> "int"]
\* secs, usecs := Uint32(data[lo:lo+4]), Uint32(data[hi:hi+4]);
\* f = time.Unix(int64(secs), int64(usecs)*1000)
UnixStmt(f, lo, hi) == [k |-> "unix", f |-> f, lo |-> lo, hi |-> hi, conv |-> "none"]

\* the statement's reads are within bounds
StmtInBounds(s, data) ==
  CASE s.k = "index" -> CanIndex(data, s.lo)
    [] s.k \in {"be", "le", "slice"} -> CanSlice(data, s.lo, s.hi)
    [] s.k = "unix" -> CanSlice(data, s.lo, s.lo + 4) /\ CanSlice(data, s.hi, s.hi + 4)
    [] OTHER -> TRUE

Convert(conv, x) ==
  CASE conv = "int8" -> Int8(x)
    [] conv = "int16" -> Int16(x)
    [] OTHER -> x

\* the value the statement assigns
StmtValue(s, rec, data) ==
  CASE s.k = "index" -> Convert(s.conv, Index(data, s.lo))
    [] s.k = "be" -> Convert(s.conv, BigEndian(Bytes(Slice(data, s.lo, s.hi))))
    [] s.k = "le" -> LittleEndian(Bytes(Slice(data, s.lo, s.hi)))
    [] s.k = "slice" -> Slice(data, s.lo, s.hi)
    [] s.k = "const" -> s.lo
    [] s.k = "bits" -> ShiftAnd(rec.KeyInfo, s.lo, s.hi)
    [] OTHER -> UnixMicros(BigEndian(Bytes(Slice(data, s.lo, s.lo + 4))),
                           Bytes(Slice(data, s.hi, s.hi + 4)))

\* run the statements on rec; stop at the first out-of-range read, keeping
\* the fields assigned so far
RECURSIVE Exec(_, _, _)
Exec(stmts, rec, data) ==
  IF stmts = <<>> THEN [rec |-> rec, ret |-> RetNil]
  ELSE IF ~StmtInBounds(Head(stmts), data) THEN [rec |-> rec, ret |-> RetPanic]
  ELSE Exec(Tail(stmts),
            [rec EXCEPT ![Head(stmts).f] = StmtValue(Head(stmts), rec, data)],
            data)

\* a faulty BaseLayer assignment: Payload is the whole input again
SetBaseLayerKeepsInput(r, data, length) ==
  IF r.ret.kind # "nil" THEN r
  ELSE IF ~CanSlice(data, 0, length) \/ ~CanSlice(data, length, data.len)
       THEN [rec |-> r.rec, ret |-> RetPanic]
  ELSE [rec |-> [r.rec EXCEPT !.Contents = Slice(data, 0, length),
                              !.Payload = Slice(data, 0, data.len)],
        ret |-> RetNil]

\* m.BaseLayer = BaseLayer{Contents: data[:length], Payload: data[length:]}
\* after the statements: the two slice expressions are evaluated first
SetBaseLayer(r, data, length) ==
  IF r.ret.kind # "nil" THEN r
  ELSE IF ~CanSlice(data, 0, length) \/ ~CanSlice(data, length, data.len)
       THEN [rec |-> r.rec, ret |-> RetPanic]
  ELSE [rec |-> [r.rec EXCEPT !.Contents = Slice(data, 0, length),
                              !.Payload = Slice(data, length, data.len)],
        ret |-> RetNil]

-----------------------------------------------------------------------------
\* ciscoap.go

ZeroCiscoAP ==
  [Contents |-> NilSlice, Payload |-> NilSlice, Type |-> 0, Subtype |-> 0, Length |-> 0]

CiscoAPStmts ==
  << BigEndianStmt("Type", 0, 4, "uint"),
     BigEndianStmt("Subtype", 4, 4, "uint"),
     BigEndianStmt("Length", 8, 4, "uint") >>

\* a faulty DecodeFromBytes: the length field is held against the bytes that
\* follow the header
CiscoAPDecodeChecksLength(m, data) ==
  LET r == SetBaseLayer(Exec(CiscoAPStmts, m, data), data, 12)
  IN IF r.ret.kind = "nil" /\ r.rec.Length # r.rec.Payload.len
     THEN [rec |-> m, ret |-> Errorf(<<"bad length ", "">>, r.rec.Length)]
     ELSE r

\* a faulty DecodeFromBytes: Payload ends where the length field says
CiscoAPDecodeTrimsPayload(m, data) ==
  LET r == SetBaseLayer(Exec(CiscoAPStmts, m, data), data, 12)
  IN IF r.ret.kind = "nil" /\ r.rec.Length < r.rec.Payload.len
     THEN [r EXCEPT !.rec.Payload = Slice(data, 12, 12 + r.rec.Length)]
     ELSE r

\* (m *CiscoAP) DecodeFromBytes(data, df)
CiscoAPDecodeFromBytes(m, data) == SetBaseLayer(Exec(CiscoAPStmts, m, data), data, 12)

\* (m *CiscoAP) NextLayerType()
CiscoAPNextLayerType(m) == "LayerTypeOmniPeek"

-----------------------------------------------------------------------------
\* omnipeek.go

HDR_VERSION_0 == 0
HDR_VERSION_1 == 1
PEEK_HDR0_SIZE == 20
PEEK_HDR1_MAGIC_VAL == 16755661
PEEK_HDR1_VERSION == 2
PEEK_HDR1_SIZE == 55
PEEK_HDR1_TYPE == 6

ZeroOmniPeek ==
  [Contents |-> NilSlice, Payload |-> NilSlice, HeaderVersion |-> 0,
   TimeStamp |-> ZeroTime, Flags |-> 0, Status |-> 0, PacketLength |-> 0,
   SliceLength |-> 0, NoiseStrength |-> 0, SignalStrength |-> 0, Noise_dBm |-> 0,
   Signal_dBm |-> 0, Channel |-> 0, DataRate |-> 0, Frequency |-> 0, Band |-> 0,
   Dot11_HT_VHT_Flags |-> 0]

\* a faulty new style header: the powers are read from the first of the
\* per-antenna bytes, offsets 33 and 37
OmniPeekHdr1StmtsPerAntenna ==
  << ConstStmt("HeaderVersion", HDR_VERSION_1),
     BigEndianStmt("DataRate", 13, 2, "uint"),
     BigEndianStmt("Channel", 15, 2, "int16"),
     BigEndianStmt("Frequency", 17, 4, "uint"),
     BigEndianStmt("Band", 21, 4, "uint"),
     BigEndianStmt("Dot11_HT_VHT_Flags", 25, 4, "uint"),
     IndexStmt("SignalStrength", 29, "uint8"),
     IndexStmt("Signal_dBm", 33, "int8"),
     IndexStmt("NoiseStrength", 30, "uint8"),
     IndexStmt("Noise_dBm", 37, "int8"),
     BigEndianStmt("PacketLength", 41, 2, "uint"),
     BigEndianStmt("SliceLength", 43, 2, "uint"),
     IndexStmt("Flags", 45, "uint8"),
     IndexStmt("Status", 46, "uint8"),
     UnixStmt("TimeStamp", 47, 51) >>

\* the new style 802.11n header, after its version, size and type were checked
OmniPeekHdr1Stmts ==
  << ConstStmt("HeaderVersion", HDR_VERSION_1),
     BigEndianStmt("DataRate", 13, 2, "uint"),
     BigEndianStmt("Channel", 15, 2, "int16"),
     BigEndianStmt("Frequency", 17, 4, "uint"),
     BigEndianStmt("Band", 21, 4, "uint"),
     BigEndianStmt("Dot11_HT_VHT_Flags", 25, 4, "uint"),
     IndexStmt("SignalStrength", 29, "uint8"),
     IndexStmt("Signal_dBm", 31, "int8"),
     IndexStmt("NoiseStrength", 30, "uint8"),
     IndexStmt("Noise_dBm", 32, "int8"),
     BigEndianStmt("PacketLength", 41, 2, "uint"),
     BigEndianStmt("SliceLength", 43, 2, "uint"),
     IndexStmt("Flags", 45, "uint8"),
     IndexStmt("Status", 46, "uint8"),
     UnixStmt("TimeStamp", 47, 51) >>

\* the legacy 802.11 a/bg header
OmniPeekHdr0Stmts ==
  << ConstStmt("HeaderVersion", HDR_VERSION_0),
     IndexStmt("Signal_dBm", 0, "int8"),
     IndexStmt("Noise_dBm", 1, "int8"),
     BigEndianStmt("PacketLength", 2, 2, "uint"),
     BigEndianStmt("SliceLength", 4, 2, "uint"),
     IndexStmt("Flags", 6, "uint8"),
     IndexStmt("Status", 7, "uint8"),
     UnixStmt("TimeStamp", 8, 12),
     IndexStmt("DataRate", 16, "uint16"),
     IndexStmt("Channel", 17, "int16"),
     IndexStmt("SignalStrength", 18, "uint8"),
     IndexStmt("NoiseStrength", 19, "uint8") >>

\* faulty checks of the new style header: the format tag is set before them
OmniPeekHdr1TagsFirst(m, data) ==
  LET t == [m EXCEPT !.HeaderVersion = HDR_VERSION_1] IN
  IF ~CanIndex(data, 4) THEN [rec |-> t, ret |-> RetPanic]
  ELSE IF Index(data, 4) # PEEK_HDR1_VERSION
       THEN [rec |-> t, ret |-> Errorf(<<"bad header version ", "">>, Index(data, 4))]
  ELSE IF ~CanSlice(data, 5, 9) THEN [rec |-> t, ret |-> RetPanic]
  ELSE IF BigEndian(Bytes(Slice(data, 5, 9))) # PEEK_HDR1_SIZE
       THEN [rec |-> t,
             ret |-> Errorf(<<"bad header size ", "">>, BigEndian(Bytes(Slice(data, 5, 9))))]
  ELSE IF ~CanSlice(data, 9, 13) THEN [rec |-> t, ret |-> RetPanic]
  ELSE IF BigEndian(Bytes(Slice(data, 9, 13))) # PEEK_HDR1_TYPE
       THEN [rec |-> t,
             ret |-> Errorf(<<"bad header type ", "">>, BigEndian(Bytes(Slice(data, 9, 13))))]
  ELSE SetBaseLayer(Exec(OmniPeekHdr1Stmts, t, data), data, PEEK_HDR1_SIZE)

\* faulty checks of the new style header: the type is checked first, the
\* version last
OmniPeekHdr1ChecksTypeFirst(data) ==
  IF ~CanSlice(data, 9, 13) THEN RetPanic
  ELSE IF BigEndian(Bytes(Slice(data, 9, 13))) # PEEK_HDR1_TYPE
       THEN Errorf(<<"bad header type ", "">>, BigEndian(Bytes(Slice(data, 9, 13))))
  ELSE IF ~CanSlice(data, 5, 9) THEN RetPanic
  ELSE IF BigEndian(Bytes(Slice(data, 5, 9))) # PEEK_HDR1_SIZE
       THEN Errorf(<<"bad header size ", "">>, BigEndian(Bytes(Slice(data, 5, 9))))
  ELSE IF ~CanIndex(data, 4) THEN RetPanic
  ELSE IF Index(data, 4) # PEEK_HDR1_VERSION
       THEN Errorf(<<"bad header version ", "">>, Index(data, 4))
  ELSE RetNil

\* the checks of the new style header: the first failing one ends the call
OmniPeekHdr1Checks(data) ==
  IF ~CanIndex(data, 4) THEN RetPanic
  ELSE IF Index(data, 4) # PEEK_HDR1_VERSION
       THEN Errorf(<<"bad header version ", "">>, Index(data, 4))
  ELSE IF ~CanSlice(data, 5, 9) THEN RetPanic
  ELSE IF BigEndian(Bytes(Slice(data, 5, 9))) # PEEK_HDR1_SIZE
       THEN Errorf(<<"bad header size ", "">>, BigEndian(Bytes(Slice(data, 5, 9))))
  ELSE IF ~CanSlice(data, 9, 13) THEN RetPanic
  ELSE IF BigEndian(Bytes(Slice(data, 9, 13))) # PEEK_HDR1_TYPE
       THEN Errorf(<<"bad header type ", "">>, BigEndian(Bytes(Slice(data, 9, 13))))
  ELSE RetNil

\* the new style header: the checks, then the fields
OmniPeekHdr1(m, data) ==
  IF OmniPeekHdr1Checks(data) # RetNil THEN [rec |-> m, ret |-> OmniPeekHdr1Checks(data)]
  ELSE SetBaseLayer(Exec(OmniPeekHdr1Stmts, m, data), data, PEEK_HDR1_SIZE)

\* a faulty DecodeFromBytes: the magic is recognised by its first three bytes
OmniPeekDecodeShortMagic(m, data) ==
  IF ~CanSlice(data, 0, 4) THEN [rec |-> m, ret |-> RetPanic]
  ELSE IF Bytes(Slice(data, 0, 3)) = SubSeq(PutBigEndian(PEEK_HDR1_MAGIC_VAL, 4), 1, 3)
       THEN OmniPeekHdr1(m, data)
  ELSE SetBaseLayer(Exec(OmniPeekHdr0Stmts, m, data), data, PEEK_HDR0_SIZE)

\* (m *OmniPeek) DecodeFromBytes(data, df)
OmniPeekDecodeFromBytes(m, data) ==
  IF ~CanSlice(data, 0, 4) THEN [rec |-> m, ret |-> RetPanic]
  ELSE IF Uint32Is(Bytes(Slice(data, 0, 4)), PEEK_HDR1_MAGIC_VAL)
       THEN OmniPeekHdr1(m, data)
  ELSE SetBaseLayer(Exec(OmniPeekHdr0Stmts, m, data), data, PEEK_HDR0_SIZE)

\* (m *OmniPeek) NextLayerType()
OmniPeekNextLayerType(m) == "LayerTypeDot11"

-----------------------------------------------------------------------------
\* eapol.go

ZeroEAPOL ==
  [Contents |-> NilSlice, Payload |-> NilSlice, Version |-> 0, Type |-> 0, Length |-> 0]

EAPOLStmts ==
  << IndexStmt("Version", 0, "uint8"),
     IndexStmt("Type", 1, "uint8"),
     BigEndianStmt("Length", 2, 2, "uint") >>

\* (e *EAPOL) DecodeFromBytes(data, df)
EAPOLDecodeFromBytes(e, data) == SetBaseLayer(Exec(EAPOLStmts, e, data), data, 4)

\* a faulty NextLayerType: the answer is the one the registry gave after init
EAPOLNextLayerTypeAtInit(e, arrays) == EnumLayerType(InitArrays, "EAPOLType", e.Type)

\* (e *EAPOL) NextLayerType()
EAPOLNextLayerType(e, arrays) == EnumLayerType(arrays, "EAPOLType", e.Type)

\* const ( KeyInfo_DescriptorVersion KeyInfo = 1 << 0; KeyInfo_Type; ... ): a
\* constant declared without an expression repeats the expression of the one
\* before it, and no expression here uses iota, so each of the ten is 1 << 0
KeyInfo_DescriptorVersion == 1
KeyInfo_Type == 1
KeyInfo_Install == 1
KeyInfo_ACK == 1
KeyInfo_MIC == 1
KeyInfo_Secure == 1
KeyInfo_Error == 1
KeyInfo_Request == 1
KeyInfo_EncryptedKeyData == 1
KeyInfo_SMKMessage == 1

\* the exported mask constants, by the name each shares with a field of EAPOLKey
KeyInfoMaskConstants ==
  [KeyInfo_DescriptorVersion |-> KeyInfo_DescriptorVersion, KeyInfo_Type |-> KeyInfo_Type,
   KeyInfo_Install |-> KeyInfo_Install, KeyInfo_ACK |-> KeyInfo_ACK,
   KeyInfo_MIC |-> KeyInfo_MIC, KeyInfo_Secure |-> KeyInfo_Secure,
   KeyInfo_Error |-> KeyInfo_Error, KeyInfo_Request |-> KeyInfo_Request,
   KeyInfo_EncryptedKeyData |-> KeyInfo_EncryptedKeyData,
   KeyInfo_SMKMessage |-> KeyInfo_SMKMessage]

ZeroEAPOLKey ==
  [Contents |-> NilSlice, Payload |-> NilSlice, DescriptorType |-> 0, KeyInfo |-> 0,
   KeyInfo_DescriptorVersion |-> 0, KeyInfo_Type |-> 0, KeyInfo_Install |-> 0,
   KeyInfo_ACK |-> 0, KeyInfo_MIC |-> 0, KeyInfo_Secure |-> 0, KeyInfo_Error |-> 0,
   KeyInfo_Request |-> 0, KeyInfo_EncryptedKeyData |-> 0, KeyInfo_SMKMessage |-> 0,
   KeyLength |-> 0, KeyReplayCounter |-> NilSlice, KeyNonce |-> NilSlice,
   KeyIV |-> NilSlice, KeyRSC |-> NilSlice]

EAPOLKeyStmts ==
  << IndexStmt("DescriptorType", 0, "uint8"),
     LittleEndianStmt("KeyInfo", 1, 2),
     BitsStmt("KeyInfo_DescriptorVersion", 0, 7),
     BitsStmt("KeyInfo_Type", 3, 1),
     BitsStmt("KeyInfo_Install", 6, 1),
     BitsStmt("KeyInfo_ACK", 7, 1),
     BitsStmt("KeyInfo_MIC", 8, 1),
     BitsStmt("KeyInfo_Secure", 9, 1),
     BitsStmt("KeyInfo_Error", 10, 1),
     BitsStmt("KeyInfo_Request", 11, 1),
     BitsStmt("KeyInfo_EncryptedKeyData", 12, 1),
     BitsStmt("KeyInfo_SMKMessage", 13, 1),
     LittleEndianStmt("KeyLength", 3, 2),
     SliceStmt("KeyReplayCounter", 5, 8),
     SliceStmt("KeyNonce", 13, 32),
     SliceStmt("KeyIV", 45, 16),
     SliceStmt("KeyRSC", 61, 8) >>

\* a faulty BaseLayer of the key descriptor: Contents ends with the key RSC
\* and the rest is Payload
EAPOLKeySetBaseLayerSized(r, data) == SetBaseLayer(r, data, 69)

\* e.BaseLayer = BaseLayer{Contents: data}; e.Payload = nil
EAPOLKeySetBaseLayer(r, data) ==
  IF r.ret.kind # "nil" THEN r
  ELSE [rec |-> [r.rec EXCEPT !.Contents = data, !.Payload = NilSlice], ret |-> RetNil]

\* (e *EAPOLKey) DecodeFromBytes(data, df)
EAPOLKeyDecodeFromBytes(e, data) == EAPOLKeySetBaseLayer(Exec(EAPOLKeyStmts, e, data), data)

\* (e *EAPOLKey) NextLayerType()
EAPOLKeyNextLayerType(e) == "LayerTypePayload"

-----------------------------------------------------------------------------
\* Decoders.  A decoder returns [ret, calls]: its error value and the decoders
\* it invoked, each call [fn, data, ret].  What a decoder declared outside
\* enums.go, ciscoap.go, omnipeek.go and eapol.go returns is not determined
\* here: it is the oracle, "nil" or "error".

Oracles == {"nil", "error"}

ExternalRet(fn, oracle) ==
  IF oracle = "nil" THEN RetNil ELSE [kind |-> "error", text |-> fn \o ": error"]

Call(fn, data, ret) == [fn |-> fn, data |-> data, ret |-> ret]

\* a faulty decodeIPv4or6: the version is read from the low nibble
decodeIPv4or6LowNibble(data, oracle) ==
  IF ~CanIndex(data, 0) THEN [ret |-> RetPanic, calls |-> <<>>]
  ELSE LET version == Index(data, 0) % 16 IN
       CASE version = 4 ->
              [ret |-> ExternalRet("decodeIPv4", oracle),
               calls |-> <<Call("decodeIPv4", data, ExternalRet("decodeIPv4", oracle))>>]
         [] version = 6 ->
              [ret |-> ExternalRet("decodeIPv6", oracle),
               calls |-> <<Call("decodeIPv6", data, ExternalRet("decodeIPv6", oracle))>>]
         [] OTHER ->
              [ret |-> Errorf(<<"Invalid IP packet version ", "">>, version),
               calls |-> <<>>]

\* decodeIPv4or6(data, p)
decodeIPv4or6(data, oracle) ==
  IF ~CanIndex(data, 0) THEN [ret |-> RetPanic, calls |-> <<>>]
  ELSE LET version == ShiftAnd(Index(data, 0), 4, 255) IN
       CASE version = 4 ->
              [ret |-> ExternalRet("decodeIPv4", oracle),
               calls |-> <<Call("decodeIPv4", data, ExternalRet("decodeIPv4", oracle))>>]
         [] version = 6 ->
              [ret |-> ExternalRet("decodeIPv6", oracle),
               calls |-> <<Call("decodeIPv6", data, ExternalRet("decodeIPv6", oracle))>>]
         [] OTHER ->
              [ret |-> Errorf(<<"Invalid IP packet version ", "">>, version),
               calls |-> <<>>]

\* decodingLayerDecoder(d, data, p), given r = d.DecodeFromBytes(data, p) and
\* next = d.NextLayerType(): an error ends the call; otherwise the layer is
\* added and the packet builder decodes the payload as the next layer
decodingLayerDecoder(r, next, oracle) ==
  IF r.ret.kind # "nil" THEN [ret |-> r.ret, calls |-> <<>>]
  ELSE IF next = "LayerTypeZero" THEN [ret |-> RetNil, calls |-> <<>>]
  ELSE [ret |-> ExternalRet("NextDecoder", oracle),
        calls |-> <<Call("NextDecoder(" \o next \o ")", r.rec.Payload,
                         ExternalRet("NextDecoder", oracle))>>]

\* decodeCiscoAP(data, p)
decodeCiscoAP(data, oracle) ==
  LET r == CiscoAPDecodeFromBytes(ZeroCiscoAP, data)
  IN decodingLayerDecoder(r, CiscoAPNextLayerType(r.rec), oracle)

\* decodeOmniPeek(data, p)
decodeOmniPeek(data, oracle) ==
  LET r == OmniPeekDecodeFromBytes(ZeroOmniPeek, data)
  IN decodingLayerDecoder(r, OmniPeekNextLayerType(r.rec), oracle)

\* decodeEAPOL(data, p)
decodeEAPOL(data, arrays, oracle) ==
  LET r == EAPOLDecodeFromBytes(ZeroEAPOL, data)
  IN decodingLayerDecoder(r, EAPOLNextLayerType(r.rec, arrays), oracle)

\* decodeEAPOLKey(data, p)
decodeEAPOLKey(data, oracle) ==
  LET r == EAPOLKeyDecodeFromBytes(ZeroEAPOLKey, data)
  IN decodingLayerDecoder(r, EAPOLKeyNextLayerType(r.rec), oracle)

\* DecodeWith.Decode(data, p), for the decoder named fn
RunDecoder(fn, data, arrays, oracle) ==
  CASE fn = "decodeIPv4or6" -> decodeIPv4or6(data, oracle)
    [] fn = "decodeCiscoAP" -> decodeCiscoAP(data, oracle)
    [] fn = "decodeOmniPeek" -> decodeOmniPeek(data, oracle)
    [] fn = "decodeEAPOL" -> decodeEAPOL(data, arrays, oracle)
    [] fn = "decodeEAPOLKey" -> decodeEAPOLKey(data, oracle)
    [] OTHER -> [ret |-> ExternalRet(fn, oracle), calls |-> <<>>]

\* a faulty Decode: the decoder's error is dropped
EnumDecodeDropsError(arrays, ns, a, data, oracle) ==
  IF arrays[ns][a].DecodeWith # "nil"
  THEN LET r == RunDecoder(arrays[ns][a].DecodeWith, data, arrays, oracle)
       IN [ret |-> RetNil,
           calls |-> <<Call(arrays[ns][a].DecodeWith, data, r.ret)>> \o r.calls]
  ELSE [ret |-> Errorf(unableFormat(ns), a), calls |-> <<>>]

\* (a Xxx) Decode(data, p)
EnumDecode(arrays, ns, a, data, oracle) ==
  IF arrays[ns][a].DecodeWith # "nil"
  THEN LET r == RunDecoder(arrays[ns][a].DecodeWith, data, arrays, oracle)
       IN [ret |-> r.ret,
           calls |-> <<Call(arrays[ns][a].DecodeWith, data, r.ret)>> \o r.calls]
  ELSE [ret |-> Errorf(unableFormat(ns), a), calls |-> <<>>]

-----------------------------------------------------------------------------
\* Inputs.

\* a slice of len bytes over a backing array holding arr
Data(arr, len) == [arr |-> arr, len |-> len]

\* the buffer handed to Decode through a registry: an IPv4 first byte, and an
\* 802.1X header of type 3
DispatchInputs == {Data(<<69, 3, 0, 0>>, 4)}

\* a raw IP packet handed to LinkTypeRaw.Decode: its first byte has IP version 5
RawInputs == {Data(<<80, 3, 0, 0>>, 4)}

\* buffers handed to decodeIPv4or6: every version nibble over a low nibble of
\* 4, the versions 4 and 5 over a low nibble of 6 as well, and no byte at all
IPInputs ==
  {Data(<<16 * v + 4, 96>>, 2) : v \in 0 .. 15}
    \cup {Data(<<16 * v + 6, 96>>, 2) : v \in {4, 5}}
    \cup {Data(<<>>, 0)}

\* the slots an embedding application overrides, and what it stores there
OverrideTargets == {<<"IPProtocol", IPProtocolTCP>>, <<"EAPOLType", EAPOLTypeKey>>}
OverrideRecords ==
  {EnumMetadata("customDecoder", "Custom", "LayerTypeCustom"),
   EnumMetadata("nil", "NameOnly", "LayerTypeZero")}
OverrideDecoders == {"customDecoder"}

\* n as k bytes, least significant first
RECURSIVE PutLittleEndian(_, _)
PutLittleEndian(n, k) ==
  IF k = 0 THEN <<>> ELSE <<n % 256>> \o PutLittleEndian(n \div 256, k - 1)

\* the bytes that follow a header in a buffer
Trailer == [i \in 1 .. MaxPayload |-> 160 + i]

\* a buffer handed over whole
Whole(buffer) == Data(buffer, Len(buffer))

\* a buffer cut to each of the lengths, over a backing array that ends with the
\* slice and over the backing array that holds the whole buffer
Cut(buffer, lens) ==
  UNION {{Data(SubSeq(buffer, 1, c), l) : c \in {l, Len(buffer)}} : l \in lens}

\* struct APPacketHdr on the wire
APPacketHdr(type, subtype, length) ==
  PutBigEndian(type, 4) \o PutBigEndian(subtype, 4) \o PutBigEndian(length, 4)

CiscoAPBuffers ==
  {APPacketHdr(h[1], h[2], h[3]) \o Trailer :
     h \in {<<1, 4, MaxPayload>>, <<2147483647, 65536, 0>>, <<0, 258, 1000000>>}}

CiscoAPInputs ==
  {Whole(b) : b \in CiscoAPBuffers}
    \cup Cut(APPacketHdr(1, 4, MaxPayload) \o Trailer, {0, 4, 11, 12})
    \cup Cut(APPacketHdr(2147483647, 65536, 0) \o Trailer, {8, 12})

\* peek_hdr_t on the wire
PeekHdr(f) ==
  <<f.signal_dBm, f.noise_dBm>> \o PutBigEndian(f.packet_length, 2)
    \o PutBigEndian(f.slice_length, 2) \o <<f.flags, f.status>>
    \o PutBigEndian(f.tv_sec, 4) \o PutBigEndian(f.tv_usec, 4)
    \o <<f.data_rate, f.channel, f.signal_strength, f.noise_strength>>

\* peek_hdr_11n_t on the wire
PeekHdr11n(magic, version, size, type, f) ==
  PutBigEndian(magic, 4) \o <<version>> \o PutBigEndian(size, 4) \o PutBigEndian(type, 4)
    \o PutBigEndian(f.data_rate, 2) \o PutBigEndian(f.channel, 2)
    \o PutBigEndian(f.frequency, 4) \o PutBigEndian(f.band, 4)
    \o PutBigEndian(f.dot11_ht_vht_flags, 4)
    \o <<f.signal_strength, f.noise_strength, f.signal_dBm, f.noise_dBm>>
    \o <<11, 12, 13, 14, 21, 22, 23, 24>>
    \o PutBigEndian(f.packet_length, 2) \o PutBigEndian(f.slice_length, 2)
    \o <<f.flags, f.status>> \o PutBigEndian(f.tv_sec, 4) \o PutBigEndian(f.tv_usec, 4)

\* two sets of field values, as unsigned wire values
WireFields1 ==
  [signal_dBm |-> 196, noise_dBm |-> 161, packet_length |-> 300, slice_length |-> 128,
   flags |-> 1, status |-> 2, tv_sec |-> 1700000000, tv_usec |-> 500000,
   data_rate |-> 108, channel |-> 200, signal_strength |-> 80, noise_strength |-> 10,
   frequency |-> 5180, band |-> 2, dot11_ht_vht_flags |-> 3]

WireFields2 ==
  [signal_dBm |-> 0, noise_dBm |-> 255, packet_length |-> 43980, slice_length |-> 64,
   flags |-> 0, status |-> 129, tv_sec |-> 1, tv_usec |-> 1999999,
   data_rate |-> 263, channel |-> 65525, signal_strength |-> 55, noise_strength |-> 0,
   frequency |-> 2412, band |-> 1, dot11_ht_vht_flags |-> 65536]

\* the same values with those of the one-byte legacy fields that exceed a byte reduced
LegacyFields(f) == [f EXCEPT !.data_rate = @ % 256, !.channel = @ % 256]

\* version, size and type of the new style headers offered: valid, each field
\* wrong in turn, and two and three fields wrong
Hdr1Variants ==
  {<<PEEK_HDR1_VERSION, PEEK_HDR1_SIZE, PEEK_HDR1_TYPE>>,
   <<3, PEEK_HDR1_SIZE, PEEK_HDR1_TYPE>>,
   <<PEEK_HDR1_VERSION, 56, PEEK_HDR1_TYPE>>,
   <<PEEK_HDR1_VERSION, PEEK_HDR1_SIZE, 7>>,
   <<PEEK_HDR1_VERSION, 20, 0>>,
   <<1, 20, 0>>}

\* a new style header with the given version, size and type
Hdr1Buffer(v) ==
  PeekHdr11n(PEEK_HDR1_MAGIC_VAL, v[1], v[2], v[3], WireFields1) \o Trailer

ValidHdr1 == <<PEEK_HDR1_VERSION, PEEK_HDR1_SIZE, PEEK_HDR1_TYPE>>

\* the buffer with the bytes b at offset off
WithBytes(buffer, off, b) ==
  SubSeq(buffer, 1, off) \o b \o SubSeq(buffer, off + Len(b) + 1, Len(buffer))

OmniPeekBuffers ==
  {Hdr1Buffer(v) : v \in Hdr1Variants}
    \cup {PeekHdr11n(PEEK_HDR1_MAGIC_VAL, PEEK_HDR1_VERSION, PEEK_HDR1_SIZE,
                     PEEK_HDR1_TYPE, WireFields2) \o Trailer}
    \cup {PeekHdr(LegacyFields(f)) \o Trailer : f \in {WireFields1, WireFields2}}
    \cup {WithBytes(PeekHdr(LegacyFields(WireFields2)) \o Trailer, 12, <<255, 255, 255, 255>>),
          WithBytes(Hdr1Buffer(ValidHdr1), 51, <<255, 255, 255, 255>>),
          WithBytes(Hdr1Buffer(ValidHdr1), 33, <<255, 255, 255, 255, 255, 255, 255, 255>>)}
    \cup {PeekHdr11n(PEEK_HDR1_MAGIC_VAL + 1, PEEK_HDR1_VERSION, PEEK_HDR1_SIZE,
                     PEEK_HDR1_TYPE, WireFields1) \o Trailer}

OmniPeekInputs ==
  {Whole(b) : b \in OmniPeekBuffers}
    \cup Cut(Hdr1Buffer(ValidHdr1), {3, 4, PEEK_HDR0_SIZE, PEEK_HDR1_SIZE - 1, PEEK_HDR1_SIZE})
    \cup Cut(Hdr1Buffer(<<3, PEEK_HDR1_SIZE, PEEK_HDR1_TYPE>>), {4, 5})
    \cup Cut(PeekHdr(LegacyFields(WireFields1)) \o Trailer,
             {0, PEEK_HDR0_SIZE - 1, PEEK_HDR0_SIZE})

\* an EAPOL frame: version, type, the length of the body, the body
EAPOLFrame(version, type, body) ==
  <<version, type>> \o PutBigEndian(Len(body), 2) \o body

\* an EAPOL-Key descriptor up to the key RSC: descriptor type, key
\* information, key length, then replay counter, nonce, IV and RSC
KeyDescriptor(type, info, length) ==
  <<type>> \o PutLittleEndian(info, 2) \o PutLittleEndian(length, 2) \o [i \in 1 .. 64 |-> i]

KeyDescriptorSize == Len(KeyDescriptor(0, 0, 0))

EAPOLKeyBuffers ==
  {KeyDescriptor(2, 5002, 16) \o Trailer, KeyDescriptor(254, 61813, 0) \o Trailer}

EAPOLKeyInputs ==
  {Whole(b) : b \in EAPOLKeyBuffers}
    \cup Cut(KeyDescriptor(2, 5002, 16) \o Trailer,
             {0, 2, KeyDescriptorSize - 1, KeyDescriptorSize})

\* key-information masks: each bit alone, none, all, the four bits that no
\* field reads, and a mixed one
KeyInfoMasks == {Pow2(k) : k \in 0 .. 15} \cup {0, 65535, 49200, 5002}

\* whole key descriptors, one for each mask
EAPOLKeyMaskInputs == {Whole(KeyDescriptor(2, mask, 288) \o Trailer) : mask \in KeyInfoMasks}

EAPOLBuffers ==
  {EAPOLFrame(1, EAPOLTypeKey, KeyDescriptor(2, 5002, 16) \o Trailer),
   EAPOLFrame(2, EAPOLTypeEAP, Trailer)}

EAPOLInputs ==
  {Whole(b) : b \in EAPOLBuffers}
    \cup Cut(EAPOLFrame(2, EAPOLTypeEAP, Trailer), {0, 1, 3, 4})

\* what a program may store in the EAPOLType slot of the key frames
EAPOLOverrideRecords ==
  {EnumMetadata("decodeEAPOLKey", "Key", "LayerTypeEAPOLKey"),
   EnumMetadata("customDecoder", "Custom", "LayerTypeCustom")}

-----------------------------------------------------------------------------
\* The state machine.

Result(op, ns, code, data, ret, calls, str, tag) ==
  [op |-> op, ns |-> ns, code |-> code, data |-> data, ret |-> ret,
   calls |-> calls, str |-> str, tag |-> tag, meta |-> ZeroMetadata]

\* the goroutines that decode packets
Goroutines == {1, 2}

\* a goroutine that is in no call
Idle ==
  [at |-> "idle", ns |-> "", code |-> 0, fn |-> "", data |-> NilSlice, pc |-> 0, d |-> 0,
   ret |-> RetNil, next |-> ""]

\* BaseLayer{}
ZeroBaseLayer == [Contents |-> NilSlice, Payload |-> NilSlice]

\* the process has started: init has run, no record is decoded yet
Init ==
  /\ metadata = InitArrays
  /\ omni = ZeroOmniPeek
  /\ cisco = ZeroCiscoAP
  /\ eapol = ZeroEAPOL
  /\ key = ZeroEAPOLKey
  /\ res = Result("init", "", 0, NilSlice, RetNil, <<>>, "", "")
  /\ goroutines = [t \in Goroutines |-> Idle]
  /\ heap = [d \in Goroutines |-> ZeroBaseLayer]

\* Xxx(a).Decode(data, p)
CallDecode(ns, a, data, oracle) ==
  /\ HasMethod(ns, "Decode")
  /\ oracle = "nil" \/ metadata[ns][a].DecodeWith # "nil"
  /\ LET r == EnumDecode(metadata, ns, a, data, oracle)
     IN res' = Result("Decode", ns, a, data, r.ret, r.calls, "", "")
  /\ UNCHANGED <<goroutines, heap, metadata, omni, cisco, eapol, key>>

\* Xxx(a).String()
CallString(ns, a) ==
  /\ HasMethod(ns, "String")
  /\ res' = Result("String", ns, a, NilSlice, RetNil, <<>>, EnumString(metadata, ns, a), "")
  /\ UNCHANGED <<goroutines, heap, metadata, omni, cisco, eapol, key>>

\* Xxx(a).LayerType()
CallLayerType(ns, a) ==
  /\ HasMethod(ns, "LayerType")
  /\ res' = Result("LayerType", ns, a, NilSlice, RetNil, <<>>, "",
                   EnumLayerType(metadata, ns, a))
  /\ UNCHANGED <<goroutines, heap, metadata, omni, cisco, eapol, key>>

\* XxxMetadata[a] = meta, by the embedding application
SetSlot(ns, a, meta) ==
  /\ metadata' = StoreSlot(metadata, ns, a, meta)
  /\ res' = [Result("SetSlot", ns, a, NilSlice, RetNil, <<>>, "", "") EXCEPT !.meta = meta]
  /\ UNCHANGED <<goroutines, heap, omni, cisco, eapol, key>>

\* XxxMetadata[a].DecodeWith = decodeWith, by the embedding application
SetDecodeWith(ns, a, decodeWith) ==
  /\ metadata' = StoreDecodeWith(metadata, ns, a, decodeWith)
  /\ res' = [Result("SetDecodeWith", ns, a, NilSlice, RetNil, <<>>, "", "")
               EXCEPT !.meta.DecodeWith = decodeWith]
  /\ UNCHANGED <<goroutines, heap, omni, cisco, eapol, key>>

\* decodeIPv4or6(data, p)
CallDecodeIPv4or6(data, oracle) ==
  /\ oracle = "nil" \/ (CanIndex(data, 0) /\ ShiftAnd(Index(data, 0), 4, 255) \in {4, 6})
  /\ LET r == decodeIPv4or6(data, oracle)
     IN res' = Result("decodeIPv4or6", "", 0, data, r.ret, r.calls, "", "")
  /\ UNCHANGED <<goroutines, heap, metadata, omni, cisco, eapol, key>>

Next ==
  \/ \E ns \in Namespaces, data \in DispatchInputs, oracle \in Oracles :
       \E a \in CodeInputs(ns) : CallDecode(ns, a, data, oracle)
  \/ \E data \in RawInputs, oracle \in Oracles :
       CallDecode("LinkType", LinkTypeRaw, data, oracle)
  \/ \E ns \in Namespaces : \E a \in CodeInputs(ns) : CallString(ns, a)
  \/ \E ns \in Namespaces : \E a \in CodeInputs(ns) : CallLayerType(ns, a)
  \/ \E t \in OverrideTargets, meta \in OverrideRecords : SetSlot(t[1], t[2], meta)
  \/ \E t \in OverrideTargets, d \in OverrideDecoders : SetDecodeWith(t[1], t[2], d)
  \/ \E data \in IPInputs, oracle \in Oracles : CallDecodeIPv4or6(data, oracle)

\* the registry and the dispatch glue
Spec == Init /\ [][Next]_vars

\* m.DecodeFromBytes(data, df) on the OmniPeek record
CallOmniPeekDecode(data) ==
  /\ LET r == OmniPeekDecodeFromBytes(omni, data)
     IN /\ omni' = r.rec
        /\ res' = Result("OmniPeek.DecodeFromBytes", "", 0, data, r.ret, <<>>, "", "")
  /\ UNCHANGED <<goroutines, heap, metadata, cisco, eapol, key>>

\* m.NextLayerType() on the OmniPeek record
CallOmniPeekNextLayerType ==
  /\ res' = Result("OmniPeek.NextLayerType", "", 0, NilSlice, RetNil, <<>>, "",
                   OmniPeekNextLayerType(omni))
  /\ UNCHANGED <<goroutines, heap, metadata, omni, cisco, eapol, key>>

NextOmniPeek ==
  \/ \E data \in OmniPeekInputs : CallOmniPeekDecode(data)
  \/ CallOmniPeekNextLayerType

\* the RF metadata header decoder, on a record that is decoded into repeatedly
SpecOmniPeek == Init /\ [][NextOmniPeek]_vars

\* m.DecodeFromBytes(data, df) on the CiscoAP record
CallCiscoAPDecode(data) ==
  /\ LET r == CiscoAPDecodeFromBytes(cisco, data)
     IN /\ cisco' = r.rec
        /\ res' = Result("CiscoAP.DecodeFromBytes", "", 0, data, r.ret, <<>>, "", "")
  /\ UNCHANGED <<goroutines, heap, metadata, omni, eapol, key>>

\* m.NextLayerType() on the CiscoAP record
CallCiscoAPNextLayerType ==
  /\ res' = Result("CiscoAP.NextLayerType", "", 0, NilSlice, RetNil, <<>>, "",
                   CiscoAPNextLayerType(cisco))
  /\ UNCHANGED <<goroutines, heap, metadata, omni, cisco, eapol, key>>

NextCiscoAP ==
  \/ \E data \in CiscoAPInputs : CallCiscoAPDecode(data)
  \/ CallCiscoAPNextLayerType

\* the wrapping message header decoder
SpecCiscoAP == Init /\ [][NextCiscoAP]_vars

\* e.DecodeFromBytes(data, df) on the EAPOL record
CallEAPOLDecode(data) ==
  /\ LET r == EAPOLDecodeFromBytes(eapol, data)
     IN /\ eapol' = r.rec
        /\ res' = Result("EAPOL.DecodeFromBytes", "", 0, data, r.ret, <<>>, "", "")
  /\ UNCHANGED <<goroutines, heap, metadata, omni, cisco, key>>

\* e.NextLayerType() on the EAPOL record
CallEAPOLNextLayerType ==
  /\ res' = Result("EAPOL.NextLayerType", "EAPOLType", eapol.Type, NilSlice, RetNil, <<>>, "",
                   EAPOLNextLayerType(eapol, metadata))
  /\ UNCHANGED <<goroutines, heap, metadata, omni, cisco, eapol, key>>

\* e.DecodeFromBytes(data, df) on the EAPOLKey record
CallEAPOLKeyDecode(data) ==
  /\ LET r == EAPOLKeyDecodeFromBytes(key, data)
     IN /\ key' = r.rec
        /\ res' = Result("EAPOLKey.DecodeFromBytes", "", 0, data, r.ret, <<>>, "", "")
  /\ UNCHANGED <<goroutines, heap, metadata, omni, cisco, eapol>>

\* e.NextLayerType() on the EAPOLKey record
CallEAPOLKeyNextLayerType ==
  /\ res' = Result("EAPOLKey.NextLayerType", "", 0, NilSlice, RetNil, <<>>, "",
                   EAPOLKeyNextLayerType(key))
  /\ UNCHANGED <<goroutines, heap, metadata, omni, cisco, eapol, key>>

NextEAPOL ==
  \/ \E data \in EAPOLInputs : CallEAPOLDecode(data)
  \/ CallEAPOLNextLayerType
  \/ \E data \in EAPOLKeyInputs : CallEAPOLKeyDecode(data)
  \/ CallEAPOLKeyNextLayerType
  \/ \E meta \in EAPOLOverrideRecords : SetSlot("EAPOLType", EAPOLTypeKey, meta)
  \/ CallDecode("EAPOLType", eapol.Type, eapol.Payload, "nil")

\* the 802.1X decoders with the EAPOLType registry: a frame is decoded, its
\* type is looked up and dispatched on, and the slot of the key frames is
\* overridden meanwhile
SpecEAPOL == Init /\ [][NextEAPOL]_vars

-----------------------------------------------------------------------------
\* s is a slice of the backing array of data: it starts Cap(data) - Cap(s)
\* bytes into it and ends where it ends
Aliases(s, data) ==
  /\ 0 < Cap(s)
  /\ Cap(s) <= Cap(data)
  /\ s.arr = SubSeq(data.arr, Cap(data) - Cap(s) + 1, Cap(data))

\* the slice s after data[i] = b
StoreThrough(s, data, i, b) ==
  LET at == i - (Cap(data) - Cap(s)) IN
  IF Aliases(s, data) /\ 0 <= at THEN [s EXCEPT !.arr[at + 1] = b] ELSE s

\* the fields of EAPOLKey that are byte slices
EAPOLKeySlices == {"Contents", "Payload", "KeyReplayCounter", "KeyNonce", "KeyIV", "KeyRSC"}

\* the offsets the caller writes at: the last byte before the replay counter,
\* and a first or last byte of each of the four ranges
StoreOffsets == {4, 12, 13, 60, 68}

\* the caller of the last DecodeFromBytes writes data[i] = b into the buffer it
\* passed
StoreInputByte(i, b) ==
  /\ res.op \in {"EAPOLKey.DecodeFromBytes", "store"}
  /\ res.ret = RetNil
  /\ CanIndex(res.data, i)
  /\ Index(res.data, i) # b
  /\ key' = [f \in DOMAIN key |->
               IF f \in EAPOLKeySlices THEN StoreThrough(key[f], res.data, i, b) ELSE key[f]]
  /\ res' = Result("store", "", i, StoreThrough(res.data, res.data, i, b), RetNil, <<>>, "", "")
  /\ UNCHANGED <<goroutines, heap, metadata, omni, cisco, eapol>>

NextEAPOLKey ==
  \/ \E data \in EAPOLKeyInputs \cup EAPOLKeyMaskInputs : CallEAPOLKeyDecode(data)
  \/ CallEAPOLKeyNextLayerType

\* the key-exchange decoder on one record, over every key-information mask
SpecEAPOLKey == Init /\ [][NextEAPOLKey]_vars

NextEAPOLKeyViews ==
  \/ \E data \in EAPOLKeyInputs : CallEAPOLKeyDecode(data)
  \/ CallEAPOLKeyNextLayerType
  \/ \E i \in StoreOffsets : StoreInputByte(i, 255)

\* the key-exchange decoder on one record, and the caller writing into the
\* buffer it has passed
SpecEAPOLKeyViews == Init /\ [][NextEAPOLKeyViews]_vars

\* buffers for the four header decoders side by side: each header alone and
\* each header followed by payload bytes; the headers declare lengths above and
\* below the number of bytes that follow them.  The key descriptor is also
\* handed over as a slice of its first bytes.
DecoderBuffers(op) ==
  LET hdr == CASE op = "OmniPeek" ->
                    {PeekHdr(LegacyFields(WireFields1)), Hdr1Buffer(ValidHdr1),
                     PeekHdr([LegacyFields(WireFields2) EXCEPT !.packet_length = 1,
                                                               !.slice_length = 1])}
               [] op = "CiscoAP" -> {APPacketHdr(1, 4, MaxPayload), APPacketHdr(1, 4, 0)}
               [] op = "EAPOL" -> {EAPOLFrame(1, EAPOLTypeKey, <<>>), <<1, EAPOLTypeKey, 0, 95>>}
               [] OTHER -> {KeyDescriptor(2, 5002, 16)}
  IN UNION {{Whole(h), Whole(h \o Trailer)} : h \in hdr}
       \cup (IF op = "EAPOLKey" THEN {Data(KeyDescriptor(2, 5002, 16) \o Trailer, 2)} ELSE {})

NextDecoders ==
  \/ \E data \in DecoderBuffers("OmniPeek") : CallOmniPeekDecode(data)
  \/ \E data \in DecoderBuffers("CiscoAP") : CallCiscoAPDecode(data)
  \/ \E data \in DecoderBuffers("EAPOL") : CallEAPOLDecode(data)
  \/ \E data \in DecoderBuffers("EAPOLKey") : CallEAPOLKeyDecode(data)

\* the four header decoders, each on its record, on buffers with and without
\* bytes after the header
SpecDecoders == Init /\ [][NextDecoders]_vars

-----------------------------------------------------------------------------
\* Concurrent decode calls.

\* a call a goroutine makes: Xxx(code).String() or Xxx(code).Decode(data, p)
\* when ns names a registry, decodeXxx(data, p) otherwise
DecodeCall(ns, code, fn, data) == [ns |-> ns, code |-> code, fn |-> fn, data |-> data]

ConcurrentCalls ==
  {DecodeCall("", 0, "decodeCiscoAP", data) :
     data \in {Whole(APPacketHdr(1, 4, MaxPayload) \o Trailer),
               Whole(APPacketHdr(0, 258, 1000000) \o Trailer),
               Data(SubSeq(APPacketHdr(1, 4, MaxPayload), 1, 11), 11)}}
    \cup {DecodeCall("", 0, "decodeOmniPeek", Whole(b)) :
            b \in {Hdr1Buffer(ValidHdr1), Hdr1Buffer(<<3, PEEK_HDR1_SIZE, PEEK_HDR1_TYPE>>),
                   PeekHdr(LegacyFields(WireFields2)) \o Trailer}}
    \cup {DecodeCall("EthernetType", EthernetTypeEAPOL, "", Whole(b)) : b \in EAPOLBuffers}
    \cup {DecodeCall("EAPOLType", EAPOLTypeKey, "", Whole(KeyDescriptor(2, 5002, 16)))}
    \cup {DecodeCall("EthernetType", EthernetTypeEAPOL, "String", NilSlice)}

\* the record a faulty decodeXxx decodes into: one that all calls share
NewShared(t) == 1

\* d := &Xxx{}: the record of the call goroutine t makes is its own
New(t) == t

\* the zero value of the record decodeXxx allocates
ZeroRecord(fn) ==
  CASE fn = "decodeCiscoAP" -> ZeroCiscoAP
    [] fn = "decodeOmniPeek" -> ZeroOmniPeek
    [] fn = "decodeEAPOL" -> ZeroEAPOL
    [] OTHER -> ZeroEAPOLKey

\* data starts with the magic of the new style header
IsHdr1(data) == CanSlice(data, 0, 4) /\ Uint32Is(Bytes(Slice(data, 0, 4)), PEEK_HDR1_MAGIC_VAL)

\* what DecodeFromBytes reads and checks before its first assignment
Checks(fn, data) ==
  IF fn # "decodeOmniPeek" THEN RetNil
  ELSE IF ~CanSlice(data, 0, 4) THEN RetPanic
  ELSE IF IsHdr1(data) THEN OmniPeekHdr1Checks(data)
  ELSE RetNil

\* the assignments of DecodeFromBytes, in order
Statements(fn, data) ==
  CASE fn = "decodeCiscoAP" -> CiscoAPStmts
    [] fn = "decodeOmniPeek" -> IF IsHdr1(data) THEN OmniPeekHdr1Stmts ELSE OmniPeekHdr0Stmts
    [] fn = "decodeEAPOL" -> EAPOLStmts
    [] OTHER -> EAPOLKeyStmts

\* the assignment of the BaseLayer, which ends DecodeFromBytes
BaseLayerOf(fn, r, data) ==
  CASE fn = "decodeCiscoAP" -> SetBaseLayer(r, data, 12)
    [] fn = "decodeOmniPeek" ->
         SetBaseLayer(r, data, IF IsHdr1(data) THEN PEEK_HDR1_SIZE ELSE PEEK_HDR0_SIZE)
    [] fn = "decodeEAPOL" -> SetBaseLayer(r, data, 4)
    [] OTHER -> EAPOLKeySetBaseLayer(r, data)

\* d.NextLayerType()
NextLayerTypeOf(fn, rec, arrays) ==
  CASE fn = "decodeCiscoAP" -> CiscoAPNextLayerType(rec)
    [] fn = "decodeOmniPeek" -> OmniPeekNextLayerType(rec)
    [] fn = "decodeEAPOL" -> EAPOLNextLayerType(rec, arrays)
    [] OTHER -> EAPOLKeyNextLayerType(rec)

\* the call has ended with ret
Returned(g, ret, next) == [g EXCEPT !.at = "returned", !.ret = ret, !.next = next]

\* goroutine t makes the call c: String reads the slot of the code and
\* returns; Decode reads the slot and calls its decoder, or fails; the decoder
\* allocates its record
Go(t, c) ==
  /\ goroutines[t].at # "running"
  /\ LET fn == IF c.ns = "" \/ c.fn = "String" THEN c.fn ELSE metadata[c.ns][c.code].DecodeWith
         g == [Idle EXCEPT !.ns = c.ns, !.code = c.code, !.data = c.data]
     IN CASE fn = "String" ->
               /\ goroutines' =
                    [goroutines EXCEPT ![t] = Returned([g EXCEPT !.fn = fn], RetNil,
                                                       EnumString(metadata, c.ns, c.code))]
               /\ heap' = heap
          [] fn = "nil" ->
               /\ goroutines' =
                    [goroutines EXCEPT ![t] = Returned(g, Errorf(unableFormat(c.ns), c.code), "")]
               /\ heap' = heap
          [] OTHER ->
               /\ goroutines' =
                    [goroutines EXCEPT ![t] = [g EXCEPT !.at = "running", !.fn = fn, !.d = New(t)]]
               /\ heap' = [heap EXCEPT ![New(t)] = ZeroRecord(fn)]
  /\ UNCHANGED <<metadata, omni, cisco, eapol, key, res>>

\* goroutine t reads the magic and checks the header
StepChecks(t) ==
  LET g == goroutines[t] IN
  /\ g.at = "running"
  /\ g.pc = 0
  /\ goroutines' =
       [goroutines EXCEPT ![t] = IF Checks(g.fn, g.data) = RetNil
                                 THEN [g EXCEPT !.pc = 1]
                                 ELSE Returned(g, Checks(g.fn, g.data), "")]
  /\ UNCHANGED <<metadata, omni, cisco, eapol, key, res, heap>>

\* goroutine t executes the next assignment of DecodeFromBytes
StepAssign(t) ==
  LET g == goroutines[t]
      r == Exec(<<Statements(g.fn, g.data)[g.pc]>>, heap[g.d], g.data)
  IN /\ g.at = "running"
     /\ g.pc \in 1 .. Len(Statements(g.fn, g.data))
     /\ goroutines' =
          [goroutines EXCEPT ![t] = IF r.ret = RetNil
                                    THEN [g EXCEPT !.pc = g.pc + 1]
                                    ELSE Returned(g, r.ret, "")]
     /\ heap' = [heap EXCEPT ![g.d] = r.rec]
     /\ UNCHANGED <<metadata, omni, cisco, eapol, key, res>>

\* goroutine t assigns the BaseLayer; DecodeFromBytes returns
StepBaseLayer(t) ==
  LET g == goroutines[t]
      r == BaseLayerOf(g.fn, [rec |-> heap[g.d], ret |-> RetNil], g.data)
  IN /\ g.at = "running"
     /\ g.pc = Len(Statements(g.fn, g.data)) + 1
     /\ goroutines' =
          [goroutines EXCEPT ![t] = IF r.ret = RetNil
                                    THEN [g EXCEPT !.pc = g.pc + 1]
                                    ELSE Returned(g, r.ret, "")]
     /\ heap' = [heap EXCEPT ![g.d] = r.rec]
     /\ UNCHANGED <<metadata, omni, cisco, eapol, key, res>>

\* goroutine t asks the record for its next layer type, and the call returns
\* what the packet builder makes of it
StepNextLayerType(t) ==
  LET g == goroutines[t]
      next == NextLayerTypeOf(g.fn, heap[g.d], metadata)
  IN /\ g.at = "running"
     /\ g.pc = Len(Statements(g.fn, g.data)) + 2
     /\ goroutines' =
          [goroutines EXCEPT ![t] =
             Returned(g, decodingLayerDecoder([rec |-> heap[g.d], ret |-> RetNil], next, "nil").ret,
                      next)]
     /\ UNCHANGED <<metadata, omni, cisco, eapol, key, res, heap>>

NextConcurrent ==
  \E t \in Goroutines :
    \/ \E c \in ConcurrentCalls : Go(t, c)
    \/ StepChecks(t)
    \/ StepAssign(t)
    \/ StepBaseLayer(t)
    \/ StepNextLayerType(t)

\* two goroutines decode packets at the same time, each call into a record of
\* its own, statement by statement
SpecConcurrent == Init /\ [][NextConcurrent]_vars

-----------------------------------------------------------------------------
\* Layer-by-layer decoding of one packet.

\* the packets a pipeline decodes: wrapping messages that hold an RF metadata
\* header of either format, none, or one of a wrong version, and one that is cut
\* short; 802.1X frames that hold a key descriptor, nothing, or an EAP packet
ChainCalls ==
  {DecodeCall("", 0, "decodeCiscoAP", data) :
     data \in {Whole(APPacketHdr(1, 4, MaxPayload) \o Hdr1Buffer(ValidHdr1)),
               Whole(APPacketHdr(1, 4, MaxPayload) \o PeekHdr(LegacyFields(WireFields2)) \o Trailer),
               Whole(APPacketHdr(1, 4, 0)),
               Whole(APPacketHdr(1, 4, MaxPayload)
                       \o Hdr1Buffer(<<3, PEEK_HDR1_SIZE, PEEK_HDR1_TYPE>>)),
               Data(SubSeq(APPacketHdr(1, 4, MaxPayload), 1, 11), 11)}}
    \cup {DecodeCall("", 0, "decodeEAPOL", Whole(b)) :
            b \in EAPOLBuffers \cup {EAPOLFrame(1, EAPOLTypeKey, <<>>)}}

\* the decoder of this package that the packet builder has for a layer type,
\* "" for every other layer type
LayerDecoder(layerType) ==
  CASE layerType = "LayerTypeCiscoAP" -> "decodeCiscoAP"
    [] layerType = "LayerTypeOmniPeek" -> "decodeOmniPeek"
    [] layerType = "LayerTypeEAPOL" -> "decodeEAPOL"
    [] layerType = "LayerTypeEAPOLKey" -> "decodeEAPOLKey"
    [] OTHER -> ""

\* the goroutines that decode packets layer by layer: a packet is decoded by
\* one goroutine
Pipelines == {t \in Goroutines : \A u \in Goroutines : t <= u}

\* p.NextDecoder(next): an error, the zero layer type and a layer type that is
\* decoded outside this package end the chain; otherwise the decoder of the
\* next layer is called with the Payload of the layer just decoded.  With no
\* byte of payload left the builder may call the decoder or end the chain.
NextDecoder(t) ==
  LET g == goroutines[t]
      fn == LayerDecoder(g.next)
  IN /\ g.at = "returned"
     /\ \/ /\ g.ret # RetNil \/ fn = "" \/ heap[g.d].Payload.len = 0
           /\ goroutines' = [goroutines EXCEPT ![t] = [g EXCEPT !.at = "done"]]
           /\ heap' = heap
        \/ /\ g.ret = RetNil
           /\ fn # ""
           /\ goroutines' =
                [goroutines EXCEPT ![t] =
                   [Idle EXCEPT !.at = "running", !.fn = fn, !.d = New(t),
                                !.data = heap[g.d].Payload]]
           /\ heap' = [heap EXCEPT ![New(t)] = ZeroRecord(fn)]
     /\ UNCHANGED <<metadata, omni, cisco, eapol, key, res>>

\* a goroutine hands a packet to the decoder of its first layer; the
\* application registers the key-exchange layer for 802.1X frames of type 3
\* while no packet is being decoded; the decoders run statement by statement
NextChain ==
  \/ \E t \in Pipelines, c \in ChainCalls :
       goroutines[t].at \in {"idle", "done"} /\ Go(t, c)
  \/ /\ \A t \in Pipelines : goroutines[t].at \in {"idle", "done"}
     /\ SetSlot("EAPOLType", EAPOLTypeKey,
                EnumMetadata("decodeEAPOLKey", "Key", "LayerTypeEAPOLKey"))
  \/ \E t \in Pipelines : StepChecks(t)
  \/ \E t \in Pipelines : StepAssign(t)
  \/ \E t \in Pipelines : StepBaseLayer(t)
  \/ \E t \in Pipelines : StepNextLayerType(t)
  \/ \E t \in Pipelines : NextDecoder(t)

\* packets are decoded layer by layer, and the goroutine that decodes a packet
\* is scheduled again and again: it executes its next statement
SpecChain ==
  /\ Init
  /\ [][NextChain]_vars
  /\ \A t \in Pipelines :
       /\ WF_vars(StepChecks(t))
       /\ WF_vars(StepAssign(t))
       /\ WF_vars(StepBaseLayer(t))
       /\ WF_vars(StepNextLayerType(t))
       /\ WF_vars(NextDecoder(t))

-----------------------------------------------------------------------------
\* Properties of the registry and the dispatch glue.

\* the enumeration types whose methods enums.go declares
EnumsGoTypes == Namespaces \ {"USBTransportType"}

\* C1: Decode(code, bytes) looks at the slot of the code: with no decoder set
\* it returns an error naming the code in decimal and invokes no decoder;
\* otherwise it invokes the slot's decoder, once, on the given bytes and
\* returns what that decoder returned, success or error.
C1_DecodeDispatch ==
  (res.op = "Decode" /\ res.ns \in EnumsGoTypes) =>
    LET slot == metadata[res.ns][res.code] IN
    IF slot.DecodeWith = "nil"
    THEN /\ res.ret.kind = "error"
         /\ res.ret.text = unableFormat(res.ns)[1] \o Decimal(res.code)
         /\ res.calls = <<>>
    ELSE /\ res.calls # <<>>
         /\ res.calls[1].fn = slot.DecodeWith
         /\ res.calls[1].data = res.data
         /\ res.ret = res.calls[1].ret
         /\ \A i \in 2 .. Len(res.calls) :
              res.calls[i].fn \in {"decodeIPv4", "decodeIPv6", "NextDecoder(LayerTypeCustom)"}

\* a registered decoder failed and Decode returned its error
C1_Witness ==
  /\ res.op = "Decode"
  /\ res.ns = "IPProtocol"
  /\ metadata[res.ns][res.code].DecodeWith = "decodeTCP"
  /\ res.ret.kind = "error"
  /\ res.calls # <<>>

\* C2 as stated: name and next_layer exist in every one of the eleven
\* namespaces; name is the registered name or "Unknown<Namespace>(<code>)",
\* next_layer the registered tag or the zero tag; on a never registered code
\* name is the Unknown string and Decode fails.
C2_Original ==
  /\ \A ns \in EnumsGoTypes : HasMethod(ns, "String") /\ HasMethod(ns, "LayerType")
  /\ res.op = "String" =>
       res.str = IF metadata[res.ns][res.code].Name # ""
                 THEN metadata[res.ns][res.code].Name
                 ELSE "Unknown" \o res.ns \o "(" \o Decimal(res.code) \o ")"
  /\ res.op = "LayerType" => res.tag = metadata[res.ns][res.code].LayerType

\* C2, amended: every enumeration type of enums.go has String, which never
\* fails and returns the registered name or "Unknown<Type>(<code>)" with the
\* decimal code; exactly EthernetType, IPProtocol, EAPOLType, ProtocolFamily
\* and Dot11Type have LayerType, which never fails and returns the slot's tag
\* (the zero tag for a slot never populated); on a slot never populated String
\* is the Unknown string and Decode fails without invoking a decoder.
C2_NameAndNextLayer ==
  /\ \A ns \in EnumsGoTypes :
       /\ HasMethod(ns, "String")
       /\ HasMethod(ns, "LayerType") <=>
            ns \in {"EthernetType", "IPProtocol", "EAPOLType", "ProtocolFamily", "Dot11Type"}
  /\ (res.op = "String" /\ res.ns \in EnumsGoTypes) =>
       /\ res.ret = RetNil
       /\ res.str = IF metadata[res.ns][res.code].Name # ""
                    THEN metadata[res.ns][res.code].Name
                    ELSE "Unknown" \o res.ns \o "(" \o Decimal(res.code) \o ")"
  /\ (res.op = "LayerType" /\ res.ns \in EnumsGoTypes) =>
       /\ res.ret = RetNil
       /\ res.tag = metadata[res.ns][res.code].LayerType
       /\ metadata[res.ns][res.code] = ZeroMetadata => res.tag = "LayerTypeZero"
  /\ (res.op = "Decode" /\ res.ns \in EnumsGoTypes
        /\ metadata[res.ns][res.code] = ZeroMetadata) =>
       res.ret.kind = "error" /\ res.calls = <<>>

\* String was called on the never registered PPPoE code PADI
C2_Witness ==
  /\ res.op = "String"
  /\ res.ns = "PPPoECode"
  /\ res.code = PPPoECodePADI
  /\ metadata[res.ns][res.code] = ZeroMetadata
  /\ res.str = "UnknownPPPoECode(9)"

\* what a caller observes of slot (ns, a): its name, its layer tag and the
\* decoder Decode hands the bytes to (or the error it returns without one)
Lookup(arrays, ns, a) ==
  [str |-> EnumString(arrays, ns, a),
   tag |-> EnumLayerType(arrays, ns, a),
   dec |-> [data \in DispatchInputs |->
              LET r == EnumDecode(arrays, ns, a, data, "nil")
              IN IF r.calls = <<>> THEN Call("none", data, r.ret)
                 ELSE Call(r.calls[1].fn, r.calls[1].data, RetNil)]]

\* everything Decode does for slot (ns, a): what it returns and every decoder
\* invoked on the way, for each outcome of the decoders outside this package
Outcome(arrays, ns, a) ==
  [data \in DispatchInputs, oracle \in Oracles |-> EnumDecode(arrays, ns, a, data, oracle)]

\* the step is an override of slot (res'.ns, res'.code)
OverrideStep == res'.op \in {"SetSlot", "SetDecodeWith"}

\* the slot, after the override, answers as the record written does
AnswersAsWritten ==
  LET now == Lookup(metadata', res'.ns, res'.code)
      was == Lookup(metadata, res'.ns, res'.code)
      fn == res'.meta.DecodeWith
  IN /\ \A data \in DispatchInputs :
          /\ now.dec[data].fn = IF fn = "nil" THEN "none" ELSE fn
          /\ now.dec[data].data = data
          /\ fn = "nil" => now.dec[data].ret.kind = "error"
     /\ res'.op = "SetSlot" =>
          /\ now.str = IF res'.meta.Name # "" THEN res'.meta.Name
                       ELSE "Unknown" \o res'.ns \o "(" \o Decimal(res'.code) \o ")"
          /\ now.tag = res'.meta.LayerType
     /\ res'.op = "SetDecodeWith" => now.str = was.str /\ now.tag = was.tag

C4_IPVersionSniff ==
  (res.op = "decodeIPv4or6" /\ res.data.len >= 1) =>
    LET v == Index(res.data, 0) \div 16 IN
    CASE v = 4 -> /\ Len(res.calls) = 1
                  /\ res.calls[1].fn = "decodeIPv4"
                  /\ res.calls[1].data = res.data
                  /\ res.ret = res.calls[1].ret
      [] v = 6 -> /\ Len(res.calls) = 1
                  /\ res.calls[1].fn = "decodeIPv6"
                  /\ res.calls[1].data = res.data
                  /\ res.ret = res.calls[1].ret
      [] OTHER -> /\ res.calls = <<>>
                  /\ res.ret.kind = "error"
                  /\ res.ret.text = "Invalid IP packet version " \o Decimal(v)

\* a buffer of version nibble 5 (and low nibble 4) was rejected
C4_Witness ==
  /\ res.op = "decodeIPv4or6"
  /\ res.data.len > 0
  /\ Index(res.data, 0) = 84
  /\ res.ret = [kind |-> "error", text |-> "Invalid IP packet version 5"]
  /\ res.calls = <<>>

-----------------------------------------------------------------------------
\* Properties of the header decoders.

\* the buffer starts with the magic of the new style header
HasMagic(d) == d.len >= 4 /\ Uint32Is(SubSeq(d.arr, 1, 4), PEEK_HDR1_MAGIC_VAL)

\* the big-endian number in bytes lo .. hi - 1 of the buffer
FieldAt(d, lo, hi) == BigEndian(SubSeq(d.arr, lo + 1, hi))

\* the record's layer is the first n bytes of the buffer and its payload the rest
Consumes(rec, d, n) ==
  /\ Bytes(rec.Contents) = SubSeq(d.arr, 1, n)
  /\ Bytes(rec.Payload) = SubSeq(d.arr, n + 1, d.len)

\* version, size and type of a new style header are the expected ones
ValidHdr1Fields(d) ==
  /\ FieldAt(d, 4, 5) = PEEK_HDR1_VERSION
  /\ FieldAt(d, 5, 9) = PEEK_HDR1_SIZE
  /\ FieldAt(d, 9, 13) = PEEK_HDR1_TYPE

\* one of version, size and type lies in the buffer and is not the expected one
MismatchedHdr1Field(d) ==
  \/ d.len >= 5 /\ FieldAt(d, 4, 5) # PEEK_HDR1_VERSION
  \/ d.len >= 9 /\ FieldAt(d, 5, 9) # PEEK_HDR1_SIZE
  \/ d.len >= 13 /\ FieldAt(d, 9, 13) # PEEK_HDR1_TYPE

\* C5: decoding a buffer that starts with the magic 0x00FFABCD and holds the
\* whole header succeeds when version, size and type are 2, 55 and 6: the
\* format is the new style one, Contents the first 55 bytes and Payload the
\* rest.  When one of the three is present and differs, the call returns an
\* error and the record, format tag included, is what it was before the call.
C5_ExtendedValidation ==
  [][(res'.op = "OmniPeek.DecodeFromBytes" /\ HasMagic(res'.data)) =>
       /\ (res'.data.len >= PEEK_HDR1_SIZE /\ ValidHdr1Fields(res'.data)) =>
            /\ res'.ret = RetNil
            /\ omni'.HeaderVersion = HDR_VERSION_1
            /\ Consumes(omni', res'.data, PEEK_HDR1_SIZE)
       /\ MismatchedHdr1Field(res'.data) =>
            /\ res'.ret.kind = "error"
            /\ omni' = omni]_vars

\* a header with a wrong field was rejected while the record held an earlier
\* legacy header with its payload
C5_Witness ==
  /\ res.op = "OmniPeek.DecodeFromBytes"
  /\ HasMagic(res.data)
  /\ MismatchedHdr1Field(res.data)
  /\ res.ret.kind = "error"
  /\ omni.HeaderVersion = HDR_VERSION_0
  /\ omni.Contents.len = PEEK_HDR0_SIZE
  /\ omni.Payload.len = MaxPayload

\* C6: decoding a buffer of at least 20 bytes whose first four bytes are not
\* the magic succeeds whatever the bytes are: the format is the legacy one,
\* Contents the first 20 bytes and Payload the rest.
C6_LegacyAlwaysDecodes ==
  (res.op = "OmniPeek.DecodeFromBytes" /\ res.data.len >= PEEK_HDR0_SIZE /\ ~HasMagic(res.data)) =>
    /\ res.ret = RetNil
    /\ omni.HeaderVersion = HDR_VERSION_0
    /\ Consumes(omni, res.data, PEEK_HDR0_SIZE)

\* a buffer that differs from the magic in its fourth byte only, and carries
\* the version, size and type of a new style header, was decoded as legacy
C6_Witness ==
  /\ res.op = "OmniPeek.DecodeFromBytes"
  /\ res.data.len >= PEEK_HDR1_SIZE
  /\ SubSeq(res.data.arr, 1, 4) = PutBigEndian(PEEK_HDR1_MAGIC_VAL + 1, 4)
  /\ ValidHdr1Fields(res.data)
  /\ res.ret = RetNil
  /\ omni.HeaderVersion = HDR_VERSION_0
  /\ omni.Payload.len = res.data.len - PEEK_HDR0_SIZE

\* the DecodeFromBytes operations
DecodeOps ==
  {"OmniPeek.DecodeFromBytes", "CiscoAP.DecodeFromBytes", "EAPOL.DecodeFromBytes",
   "EAPOLKey.DecodeFromBytes"}

\* the bytes the header needs
MinimumSize(op, d) ==
  CASE op = "OmniPeek.DecodeFromBytes" ->
         IF HasMagic(d) THEN PEEK_HDR1_SIZE ELSE PEEK_HDR0_SIZE
    [] op = "CiscoAP.DecodeFromBytes" -> 12
    [] op = "EAPOL.DecodeFromBytes" -> 4
    [] OTHER -> KeyDescriptorSize

\* C7: a header decoder given a buffer shorter than the header needs returns
\* an error value.
C7_TruncatedHeader ==
  (res.op \in DecodeOps /\ res.data.len < MinimumSize(res.op, res.data)) =>
    res.ret.kind = "error"

\* C8: decoding a wrapping message buffer of at least 12 bytes succeeds
\* whatever type, subtype and length are: they are the big-endian numbers at
\* offsets 0, 4 and 8, Contents is the first 12 bytes and Payload the rest;
\* the next layer is the OmniPeek one.
C8_CiscoAPAlwaysDecodes ==
  /\ (res.op = "CiscoAP.DecodeFromBytes" /\ res.data.len >= 12) =>
       /\ res.ret = RetNil
       /\ cisco.Type = FieldAt(res.data, 0, 4)
       /\ cisco.Subtype = FieldAt(res.data, 4, 8)
       /\ cisco.Length = FieldAt(res.data, 8, 12)
       /\ Consumes(cisco, res.data, 12)
  /\ res.op = "CiscoAP.NextLayerType" => res.tag = "LayerTypeOmniPeek"

\* a message whose length field is not the number of bytes that follow it
\* was decoded
C8_Witness ==
  /\ res.op = "CiscoAP.DecodeFromBytes"
  /\ res.data.len = 12 + MaxPayload
  /\ res.ret = RetNil
  /\ cisco.Length = 1000000
  /\ cisco.Payload.len = MaxPayload

\* C9: decoding an 802.1X buffer of at least 4 bytes succeeds: version is
\* byte 0, type byte 1, length the big-endian number at offset 2, Contents
\* the first 4 bytes and Payload the rest.  The next layer is the layer type
\* the EAPOLType registry holds for the type when it is asked, the zero one
\* for a slot never stored to.
C9_EAPOLBase ==
  /\ (res.op = "EAPOL.DecodeFromBytes" /\ res.data.len >= 4) =>
       /\ res.ret = RetNil
       /\ eapol.Version = FieldAt(res.data, 0, 1)
       /\ eapol.Type = FieldAt(res.data, 1, 2)
       /\ eapol.Length = FieldAt(res.data, 2, 4)
       /\ Consumes(eapol, res.data, 4)
  /\ res.op = "EAPOL.NextLayerType" =>
       /\ res.tag = metadata["EAPOLType"][eapol.Type].LayerType
       /\ metadata["EAPOLType"][eapol.Type] = ZeroMetadata => res.tag = "LayerTypeZero"

\* the next layer of a decoded key frame was asked for after the slot of the
\* key frames was stored to
C9_Witness ==
  /\ res.op = "EAPOL.NextLayerType"
  /\ eapol.Contents.len = 4
  /\ eapol.Type = EAPOLTypeKey
  /\ metadata["EAPOLType"][EAPOLTypeKey] # InitArrays["EAPOLType"][EAPOLTypeKey]
  /\ res.tag = "LayerTypeEAPOLKey"

\* C10: with the registry as init left it, the next layer of a decoded frame
\* of type 3 is the EAPOLKey one, and EAPOLType(3).Decode hands the frame's
\* payload to decodeEAPOLKey.
C10_KeyResolves ==
  (metadata = InitArrays /\ eapol.Contents.len = 4 /\ eapol.Type = EAPOLTypeKey) =>
    /\ res.op = "EAPOL.NextLayerType" => res.tag = "LayerTypeEAPOLKey"
    /\ (res.op = "Decode" /\ res.ns = "EAPOLType" /\ res.code = EAPOLTypeKey) =>
         /\ res.calls # <<>>
         /\ res.calls[1].fn = "decodeEAPOLKey"
         /\ res.calls[1].data = eapol.Payload

\* the key-exchange decoder returned nil on a buffer of at least 69 bytes
KeyDecoded ==
  /\ res.op = "EAPOLKey.DecodeFromBytes"
  /\ res.ret = RetNil
  /\ res.data.len >= KeyDescriptorSize

\* bit n of a 16-bit mask
Bit(mask, n) == (mask \div (2 ^ n)) % 2

\* C11: on a buffer of at least 69 bytes the key-information mask is the
\* little-endian 16-bit value at offset 1; the descriptor version is its low
\* three bits, and Type, Install, ACK, MIC, Secure, Error, Request,
\* EncryptedKeyData and SMKMessage are its bits 3, 6, 7, 8, 9, 10, 11, 12 and 13,
\* so that bits 4, 5, 14 and 15 reach no field; the key length is the
\* little-endian 16-bit value at offset 3.
C11_KeyInfoBits ==
  KeyDecoded =>
    LET d == Bytes(res.data)
        mask == d[2] + 256 * d[3]
    IN /\ key.DescriptorType = d[1]
       /\ key.KeyInfo = mask
       /\ key.KeyInfo_DescriptorVersion = mask % 8
       /\ key.KeyInfo_Type = Bit(mask, 3)
       /\ key.KeyInfo_Install = Bit(mask, 6)
       /\ key.KeyInfo_ACK = Bit(mask, 7)
       /\ key.KeyInfo_MIC = Bit(mask, 8)
       /\ key.KeyInfo_Secure = Bit(mask, 9)
       /\ key.KeyInfo_Error = Bit(mask, 10)
       /\ key.KeyInfo_Request = Bit(mask, 11)
       /\ key.KeyInfo_EncryptedKeyData = Bit(mask, 12)
       /\ key.KeyInfo_SMKMessage = Bit(mask, 13)
       /\ key.KeyLength = d[4] + 256 * d[5]

\* a mask of exactly the bits 4, 5, 14 and 15 is decoded, with a key length
\* whose two bytes differ, and every sub-field is zero
C11_Witness ==
  /\ KeyDecoded
  /\ key.KeyInfo = 49200
  /\ key.KeyLength = 288
  /\ \A f \in {"KeyInfo_DescriptorVersion", "KeyInfo_Type", "KeyInfo_Install", "KeyInfo_ACK",
               "KeyInfo_MIC", "KeyInfo_Secure", "KeyInfo_Error", "KeyInfo_Request",
               "KeyInfo_EncryptedKeyData", "KeyInfo_SMKMessage"} : key[f] = 0

\* the key record holds the outcome of decoding the buffer of at least 69
\* bytes that res.data is, as the caller has left it since
KeyHeld ==
  /\ res.op \in {"EAPOLKey.DecodeFromBytes", "store"}
  /\ res.ret = RetNil
  /\ res.data.len >= KeyDescriptorSize

\* C12: the replay counter, the nonce, the IV and the RSC are the bytes
\* [5, 13), [13, 45), [45, 61) and [61, 69) of the input, of 8, 32, 16 and 8
\* bytes, and they are views: a byte the caller writes into the input afterwards
\* shows through the field of its range.  Contents is the entire input, Payload
\* is empty, and the reported next layer is the plain payload, for which an
\* empty Payload leaves nothing to decode.
C12_KeyViews ==
  /\ KeyHeld =>
       LET d == Bytes(res.data)
       IN /\ Bytes(key.KeyReplayCounter) = SubSeq(d, 6, 13)
          /\ Bytes(key.KeyNonce) = SubSeq(d, 14, 45)
          /\ Bytes(key.KeyIV) = SubSeq(d, 46, 61)
          /\ Bytes(key.KeyRSC) = SubSeq(d, 62, 69)
          /\ <<key.KeyReplayCounter.len, key.KeyNonce.len, key.KeyIV.len, key.KeyRSC.len>>
               = <<8, 32, 16, 8>>
          /\ key.Contents = res.data
          /\ key.Payload = NilSlice
  /\ res.op = "EAPOLKey.NextLayerType" => res.tag = "LayerTypePayload"

\* the caller has overwritten byte 13 of a decoded buffer, and the first byte
\* of the nonce is the byte written
C12_Witness ==
  /\ KeyHeld
  /\ res.op = "store"
  /\ res.code = 13
  /\ Index(res.data, 13) = 255
  /\ Index(key.KeyNonce, 0) = 255

\* what the call of g does when nothing else runs: its return value, the
\* record it leaves and the name or next layer type it obtains
Alone(g) ==
  LET fn == IF g.ns = "" \/ g.fn = "String" THEN g.fn ELSE metadata[g.ns][g.code].DecodeWith
      r == CASE fn = "decodeCiscoAP" -> CiscoAPDecodeFromBytes(ZeroCiscoAP, g.data)
             [] fn = "decodeOmniPeek" -> OmniPeekDecodeFromBytes(ZeroOmniPeek, g.data)
             [] fn = "decodeEAPOL" -> EAPOLDecodeFromBytes(ZeroEAPOL, g.data)
             [] OTHER -> EAPOLKeyDecodeFromBytes(ZeroEAPOLKey, g.data)
  IN CASE fn = "String" ->
            [ret |-> RetNil, rec |-> ZeroBaseLayer, next |-> EnumString(InitArrays, g.ns, g.code)]
       [] fn = "nil" ->
            [ret |-> EnumDecode(InitArrays, g.ns, g.code, g.data, "nil").ret,
             rec |-> ZeroBaseLayer, next |-> ""]
       [] OTHER ->
            [ret |-> RunDecoder(fn, g.data, InitArrays, "nil").ret, rec |-> r.rec,
             next |-> IF r.ret = RetNil THEN NextLayerTypeOf(fn, r.rec, InitArrays) ELSE ""]

\* C13: no decode call, name or next-layer lookup or header decoder writes a
\* registry or anything else that calls share: however two goroutines that
\* decode their own buffers into their own records interleave, the registries
\* stay as init left them and each call that has returned has the return
\* value, the record and the name or next layer type it has when it runs alone.
C13_ConcurrentDecodes ==
  /\ metadata = InitArrays
  /\ \A t \in Goroutines :
       goroutines[t].at = "returned" =>
         /\ goroutines[t].ret = Alone(goroutines[t]).ret
         /\ goroutines[t].next = Alone(goroutines[t]).next
         /\ goroutines[t].d # 0 => heap[goroutines[t].d] = Alone(goroutines[t]).rec

\* goroutine 2 has returned from decoding one wrapping message while goroutine
\* 1 is in the middle of decoding another
C13_Witness ==
  /\ goroutines[2].at = "returned"
  /\ goroutines[2].fn = "decodeCiscoAP"
  /\ goroutines[2].ret = RetNil
  /\ goroutines[1].at = "running"
  /\ goroutines[1].fn = "decodeCiscoAP"
  /\ goroutines[1].pc = 2
  /\ goroutines[1].data # goroutines[2].data
  /\ heap[2].Type # heap[1].Type

\* a header decode returned nil on a buffer that holds the whole header
OmniPeekDecoded ==
  /\ res.op = "OmniPeek.DecodeFromBytes"
  /\ res.ret = RetNil
  /\ res.data.len >= (IF HasMagic(res.data) THEN PEEK_HDR1_SIZE ELSE PEEK_HDR0_SIZE)

\* t is secs seconds and usec * 1000 nanoseconds after the epoch, usec being
\* hi * 65536 + lo; 1000000 = 15 * 65536 + 16960
IsSecondsAndMicros(t, secs, hi, lo) ==
  LET q == t.sec - secs
      x == q * 16960 + (t.nsec \div 1000)
  IN /\ t.wall = "unix"
     /\ q >= 0
     /\ t.nsec \in 0 .. 999999999
     /\ t.nsec % 1000 = 0
     /\ 15 * q + (x \div 65536) = hi
     /\ x % 65536 = lo

\* C14: the timestamp is the big-endian 32-bit seconds field plus the
\* big-endian 32-bit microseconds field times 1000 nanoseconds (offsets 47 and
\* 51 of the new style header, 8 and 12 of the old style one); the product does
\* not wrap for any microseconds value, the largest included.
C14_Timestamp ==
  OmniPeekDecoded =>
    LET at == IF HasMagic(res.data) THEN 47 ELSE 8 IN
    IsSecondsAndMicros(omni.TimeStamp,
                       FieldAt(res.data, at, at + 4),
                       FieldAt(res.data, at + 4, at + 6),
                       FieldAt(res.data, at + 6, at + 8))

\* 1700000000 s and 500000 us are decoded: the time has 500,000,000 ns
C14_Witness ==
  /\ OmniPeekDecoded
  /\ ~HasMagic(res.data)
  /\ FieldAt(res.data, 8, 12) = 1700000000
  /\ FieldAt(res.data, 12, 16) = 500000
  /\ omni.TimeStamp = [wall |-> "unix", sec |-> 1700000000, nsec |-> 500000000]

\* the largest microseconds value is decoded: 4294 s and 967,295,000 ns are
\* added to the seconds
C14_WitnessMax ==
  /\ OmniPeekDecoded
  /\ HasMagic(res.data)
  /\ SubSeq(Bytes(res.data), 52, 55) = <<255, 255, 255, 255>>
  /\ omni.TimeStamp.sec = FieldAt(res.data, 47, 51) + 4294
  /\ omni.TimeStamp.nsec = 967295000

\* an error value with the text and the number in decimal
ErrorText(text, n) == [kind |-> "error", text |-> text \o Decimal(n)]

\* C15: the new style header is validated in the order version, size, type,
\* and the first mismatch ends the call: a wrong version gives the version
\* error whatever size and type are, a right version with a wrong size gives
\* the size error whatever the type is, and only then a wrong type gives the
\* type error; each error carries the offending value in decimal.
C15_ValidationOrder ==
  (res.op = "OmniPeek.DecodeFromBytes" /\ HasMagic(res.data)) =>
    LET d == res.data
        version == FieldAt(d, 4, 5)
        size == FieldAt(d, 5, 9)
        type == FieldAt(d, 9, 13)
    IN /\ (d.len >= 5 /\ version # 2) => res.ret = ErrorText("bad header version ", version)
       /\ (d.len >= 9 /\ version = 2 /\ size # 55) =>
            res.ret = ErrorText("bad header size ", size)
       /\ (d.len >= 13 /\ version = 2 /\ size = 55 /\ type # 6) =>
            res.ret = ErrorText("bad header type ", type)

\* a header whose version, size and type are all wrong was rejected for its
\* version
C15_Witness ==
  /\ res.op = "OmniPeek.DecodeFromBytes"
  /\ HasMagic(res.data)
  /\ res.data.len >= 13
  /\ FieldAt(res.data, 4, 5) = 1
  /\ FieldAt(res.data, 5, 9) = 20
  /\ FieldAt(res.data, 9, 13) = 0
  /\ res.ret = [kind |-> "error", text |-> "bad header version 1"]

\* a byte read as a signed 8-bit value
Signed8(b) == IF b >= 128 THEN b - 256 ELSE b

\* an old style header was decoded from a buffer that holds all of it
LegacyDecoded == OmniPeekDecoded /\ ~HasMagic(res.data)

\* the old style fields other than the channel: signal and noise power are the
\* signed bytes 0 and 1, flags, status, data rate and the two percentages the
\* unsigned bytes 6, 7, 16, 18 and 19, packet and slice length the big-endian
\* 16-bit values at 2 and 4
LegacyFieldsRead ==
  LET d == Bytes(res.data)
  IN /\ omni.Signal_dBm = Signed8(d[1])
     /\ omni.Noise_dBm = Signed8(d[2])
     /\ omni.PacketLength = d[3] * 256 + d[4]
     /\ omni.SliceLength = d[5] * 256 + d[6]
     /\ omni.Flags = d[7]
     /\ omni.Status = d[8]
     /\ omni.DataRate = d[17]
     /\ omni.SignalStrength = d[19]
     /\ omni.NoiseStrength = d[20]

\* C16 as stated: in the old style header signal power, noise power and the
\* channel (offset 17) are signed 8-bit values, a byte of 128 or more reading
\* as the byte minus 256; the other fields are unsigned.
C16_Original ==
  LegacyDecoded => (LegacyFieldsRead /\ omni.Channel = Signed8(Bytes(res.data)[18]))

\* C16: in the old style header signal power and noise power are signed 8-bit
\* values, and the channel is the unsigned byte at offset 17, 0 to 255, widened
\* to the 16-bit field; the other fields are unsigned as stated.
C16_LegacySignedness ==
  LegacyDecoded => (LegacyFieldsRead /\ omni.Channel = Bytes(res.data)[18])

\* an old style header with channel byte 200 and signal byte 196 was decoded:
\* the channel reads 200, the signal power -60
C16_Witness ==
  /\ LegacyDecoded
  /\ Bytes(res.data)[18] = 200
  /\ Bytes(res.data)[1] = 196
  /\ omni.Channel = 200
  /\ omni.Signal_dBm = -60

\* the big-endian 16-bit value at offset lo, read as signed
Signed16At(d, lo) ==
  IF FieldAt(d, lo, lo + 2) >= 32768 THEN FieldAt(d, lo, lo + 2) - 65536
  ELSE FieldAt(d, lo, lo + 2)

\* C17: the new style header is read at fixed offsets: data rate at 13 (16
\* bits), channel at 15 (signed 16 bits), frequency at 17, band at 21 and the
\* HT/VHT flags at 25 (32 bits each), signal and noise percentage at 29 and 30,
\* signal and noise power at 31 and 32 (signed bytes, not swapped), packet and
\* slice length at 41 and 43 (16 bits), flags at 45, status at 46.  No field is
\* read from the bytes 33 to 40.
C17_ExtendedOffsets ==
  (OmniPeekDecoded /\ HasMagic(res.data)) =>
    LET d == res.data
    IN /\ omni.DataRate = FieldAt(d, 13, 15)
       /\ omni.Channel = Signed16At(d, 15)
       /\ omni.Frequency = FieldAt(d, 17, 21)
       /\ omni.Band = FieldAt(d, 21, 25)
       /\ omni.Dot11_HT_VHT_Flags = FieldAt(d, 25, 29)
       /\ omni.SignalStrength = FieldAt(d, 29, 30)
       /\ omni.NoiseStrength = FieldAt(d, 30, 31)
       /\ omni.Signal_dBm = Signed8(FieldAt(d, 31, 32))
       /\ omni.Noise_dBm = Signed8(FieldAt(d, 32, 33))
       /\ omni.PacketLength = FieldAt(d, 41, 43)
       /\ omni.SliceLength = FieldAt(d, 43, 45)
       /\ omni.Flags = FieldAt(d, 45, 46)
       /\ omni.Status = FieldAt(d, 46, 47)

\* a new style header whose bytes 33 to 40 are all 255 was decoded: the powers
\* are those of bytes 31 and 32, the percentages those of bytes 29 and 30, and
\* the channel of another header is negative
C17_Witness ==
  /\ OmniPeekDecoded
  /\ HasMagic(res.data)
  /\ SubSeq(Bytes(res.data), 30, 41) = <<80, 10, 196, 161, 255, 255, 255, 255, 255, 255, 255, 255>>
  /\ omni.SignalStrength = 80
  /\ omni.NoiseStrength = 10
  /\ omni.Signal_dBm = -60
  /\ omni.Noise_dBm = -95

\* the operations that index a registry with a code
RegistryOps == {"Decode", "String", "LayerType", "SetSlot", "SetDecodeWith"}

\* every code of the namespace has a slot, and the slots the program has used
\* are slots of the array
InBounds(ns) ==
  /\ MaxCode(ns) < ArrayLen(ns)
  /\ DOMAIN metadata[ns] \subseteq 0 .. (ArrayLen(ns) - 1)
  /\ (res.op \in RegistryOps /\ res.ns = ns) =>
       res.code \in 0 .. MaxCode(ns)

\* C18 as stated: each registry has exactly one slot for each code of its
\* namespace's width, 256 or 65536; every code is in bounds and every slot is
\* the slot of a code.
C18_Original ==
  \A ns \in Namespaces : InBounds(ns) /\ ArrayLen(ns) = MaxCode(ns) + 1

\* C18: each registry has at least one slot for each code of its namespace's
\* width, so indexing with any code is in bounds.  The registries of the
\* 16-bit types have 65536 slots and those of the 8-bit types 256, except
\* IPProtocolMetadata and SCTPChunkTypeMetadata, which have 265: their slots
\* 256 to 264 are the slots of no code.
C18_RegistryRange ==
  \A ns \in Namespaces :
    /\ InBounds(ns)
    /\ ArrayLen(ns) = (IF ns \in {"IPProtocol", "SCTPChunkType"} THEN 265 ELSE MaxCode(ns) + 1)

\* the last code of IPProtocol or of SCTPChunkType was looked up or overwritten,
\* in arrays that are longer than the codes reach
C18_Witness ==
  /\ res.op \in {"String", "SetSlot"}
  /\ res.ns \in {"IPProtocol", "SCTPChunkType"}
  /\ res.code = 255
  /\ MaxCode(res.ns) = 255
  /\ ArrayLen(res.ns) = 265

\* the number of bytes of Contents after a successful decode of the wrapping
\* message, the RF metadata and the 802.1X base header: 12, 55 or 20, and 4
FixedContents ==
  /\ (res.op = "CiscoAP.DecodeFromBytes" /\ res.ret = RetNil) => cisco.Contents.len = 12
  /\ (res.op = "OmniPeek.DecodeFromBytes" /\ res.ret = RetNil) =>
       omni.Contents.len = (IF HasMagic(res.data) THEN 55 ELSE 20)
  /\ (res.op = "EAPOL.DecodeFromBytes" /\ res.ret = RetNil) => eapol.Contents.len = 4

\* C19 as stated: each of the four header decoders has a constant that bounds
\* the length of Contents on every successful decode, whatever the length of
\* the input; for the key-exchange decoder the constant offered is the 69 bytes
\* it reads.
C19_Original ==
  /\ FixedContents
  /\ (res.op = "EAPOLKey.DecodeFromBytes" /\ res.ret = RetNil) =>
       key.Contents.len <= KeyDescriptorSize

\* C19: on a successful decode Contents has 12 bytes for the wrapping message,
\* 55 or 20 for the RF metadata and 4 for the 802.1X base header, whatever the
\* length of the input.  The key-exchange decoder reads 69 bytes, but its
\* Contents is the whole input and grows with it.
C19_ConsumedBytes ==
  /\ FixedContents
  /\ (res.op = "EAPOLKey.DecodeFromBytes" /\ res.ret = RetNil) =>
       key.Contents.len = res.data.len

\* a key descriptor followed by further bytes was decoded, and Contents is
\* longer than the 69 bytes read; the other three records hold headers decoded
\* from buffers with further bytes, too
C19_Witness ==
  /\ res.op = "EAPOLKey.DecodeFromBytes"
  /\ res.ret = RetNil
  /\ res.data.len = KeyDescriptorSize + MaxPayload
  /\ key.Contents.len = KeyDescriptorSize + MaxPayload
  /\ cisco.Payload.len = MaxPayload
  /\ omni.Payload.len = MaxPayload
  /\ eapol.Payload.len = MaxPayload

\* the fields only the new style header has
ExtendedOnly(m) == <<m.Frequency, m.Band, m.Dot11_HT_VHT_Flags>>

\* a successful decode of an old style header into a record in use sets the
\* format tag and every field both formats have from the new buffer, and leaves
\* Frequency, Band and the HT/VHT flags as they were
C20_LegacyFrame ==
  [][(res'.op = "OmniPeek.DecodeFromBytes" /\ res'.ret = RetNil /\ ~HasMagic(res'.data)) =>
       /\ omni'.HeaderVersion = HDR_VERSION_0
       /\ LegacyFieldsRead'
       /\ ExtendedOnly(omni') = ExtendedOnly(omni)]_vars

\* C20: when one record is reused for a sequence of decodes, a successful old
\* style decode overwrites the format tag and the common fields and leaves
\* Frequency, Band and the HT/VHT flags unchanged; these three always hold the
\* values of the most recent successful new style decode on the record, zero
\* if there was none: nothing but a successful new style decode changes them.
C20_ReusedRecord ==
  [][/\ (res'.op = "OmniPeek.DecodeFromBytes" /\ res'.ret = RetNil /\ ~HasMagic(res'.data)) =>
          /\ omni'.HeaderVersion = HDR_VERSION_0
          /\ LegacyFieldsRead'
          /\ ExtendedOnly(omni') = ExtendedOnly(omni)
     /\ ExtendedOnly(omni') # ExtendedOnly(omni) =>
          /\ res'.op = "OmniPeek.DecodeFromBytes"
          /\ res'.ret = RetNil
          /\ HasMagic(res'.data)]_vars

\* an old style header was decoded into a record that holds the frequency, band
\* and HT/VHT flags of a new style header
C20_Witness ==
  /\ LegacyDecoded
  /\ omni.HeaderVersion = HDR_VERSION_0
  /\ ExtendedOnly(omni) = <<5180, 2, 3>>

-----------------------------------------------------------------------------
\* Claims C21..C24.

\* the slot has a decoder
HasDecoder(meta) == meta.DecodeWith # "nil"

\* the slot has a name
HasName(meta) == meta.Name # ""

\* the registries hold what init stored, and nothing else
AfterInit == metadata = InitArrays

\* Decode found no decoder in the slot: it called nothing and returned the
\* "Unable to decode" error of its type
NoDecoderError ==
  /\ res.calls = <<>>
  /\ res.ret = Errorf(unableFormat(res.ns), res.code)

\* the name String() synthesizes for the code of the last operation
UnknownString == Sprintf(unknownFormat(res.ns), res.code)

\* C21 as stated: right after init, Decode(code) fails exactly for the codes
\* whose String() is the synthesized Unknown string, whatever the decoders
\* outside this package return.
C21_Original ==
  (AfterInit /\ res.op = "Decode"
     /\ \A i \in DOMAIN res.calls : res.calls[i].fn \in {"decodeIPv4or6", "decodeEAPOL"}) =>
    (res.ret # RetNil <=> EnumString(metadata, res.ns, res.code) = UnknownString)

\* C21: every assignment of init stores a decoder and a non-empty name, so right
\* after init a slot has a decoder if and only if it has a name; Decode(code)
\* then returns the "Unable to decode" error of its type, without calling a
\* decoder, exactly for the codes whose String() is the synthesized Unknown
\* string, and String() returns that string exactly for the slots without a
\* decoder.  A code with a name may still fail with the error of its decoder.
\* Once a slot is given a name and no decoder, Decode of its code fails while
\* String() returns the name.
C21_InitSlots ==
  /\ \A i \in DOMAIN initAssignments :
       HasDecoder(initAssignments[i].meta) /\ HasName(initAssignments[i].meta)
  /\ AfterInit =>
       \A ns \in Namespaces : \A a \in Slots(ns) :
          HasDecoder(metadata[ns][a]) <=> HasName(metadata[ns][a])
  /\ (AfterInit /\ res.op = "Decode") =>
       /\ NoDecoderError <=> EnumString(metadata, res.ns, res.code) = UnknownString
       /\ EnumString(metadata, res.ns, res.code) = UnknownString => res.ret # RetNil
  /\ (AfterInit /\ res.op = "String") =>
       (res.str = UnknownString <=> ~HasDecoder(metadata[res.ns][res.code]))
  /\ (res.op = "Decode" /\ ~HasDecoder(metadata[res.ns][res.code])
        /\ HasName(metadata[res.ns][res.code])) =>
       /\ NoDecoderError
       /\ EnumString(metadata, res.ns, res.code) = metadata[res.ns][res.code].Name
       /\ EnumString(metadata, res.ns, res.code) # UnknownString

\* right after init, Decode of a code that init does not assign failed for
\* want of a decoder, and the name of the code is the synthesized one
C21_Witness ==
  /\ AfterInit
  /\ res.op = "Decode"
  /\ res.ns = "EthernetType"
  /\ res.code = MaxCode("EthernetType")
  /\ NoDecoderError
  /\ EnumString(metadata, res.ns, res.code) = "UnknownEthernetType(65535)"

\* a slot was given a name and no decoder: Decode of its code fails, and
\* String() returns the name
C21_WitnessOverride ==
  /\ res.op = "Decode"
  /\ res.ns = "EAPOLType"
  /\ res.code = EAPOLTypeKey
  /\ metadata[res.ns][res.code] = EnumMetadata("nil", "NameOnly", "LayerTypeZero")
  /\ NoDecoderError
  /\ EnumString(metadata, res.ns, res.code) = "NameOnly"

\* the record the last operation decoded into
Decoded ==
  CASE res.op = "OmniPeek.DecodeFromBytes" -> [Contents |-> omni.Contents, Payload |-> omni.Payload]
    [] res.op = "CiscoAP.DecodeFromBytes" -> [Contents |-> cisco.Contents, Payload |-> cisco.Payload]
    [] res.op = "EAPOL.DecodeFromBytes" -> [Contents |-> eapol.Contents, Payload |-> eapol.Payload]
    [] res.op = "EAPOLKey.DecodeFromBytes" -> [Contents |-> key.Contents, Payload |-> key.Payload]
    [] OTHER -> ZeroBaseLayer

\* the values of the length fields the last decoded header declares
DeclaredLengths ==
  CASE res.op = "OmniPeek.DecodeFromBytes" -> {omni.PacketLength, omni.SliceLength}
    [] res.op = "CiscoAP.DecodeFromBytes" -> {cisco.Length}
    [] res.op = "EAPOL.DecodeFromBytes" -> {eapol.Length}
    [] OTHER -> {}

\* C22: on every successful decode by one of the four header decoders, the
\* bytes of Contents followed by the bytes of Payload are the bytes of the
\* input buffer, in order, each once: Contents begins at the first byte of the
\* buffer and Payload, unless it is nil, begins where Contents ends and ends
\* where the buffer ends, whatever the length fields of the header declare.
C22_ContentsThenPayload ==
  (res.op \in DecodeOps /\ res.ret = RetNil) =>
    /\ Bytes(Decoded.Contents) \o Bytes(Decoded.Payload) = Bytes(res.data)
    /\ Decoded.Contents.arr = res.data.arr
    /\ Decoded.Payload # NilSlice =>
         Decoded.Payload = Slice(res.data, Decoded.Contents.len, res.data.len)
    /\ Decoded.Payload.len = res.data.len - Decoded.Contents.len
    /\ Decoded.Payload.len = res.data.len - (IF res.op = "EAPOLKey.DecodeFromBytes"
                                             THEN res.data.len
                                             ELSE MinimumSize(res.op, res.data))

\* a wrapping message that declares no payload was decoded from a buffer with
\* bytes after the header, and these bytes are the Payload
C22_Witness ==
  /\ res.op = "CiscoAP.DecodeFromBytes"
  /\ res.ret = RetNil
  /\ cisco.Length = 0
  /\ Bytes(cisco.Payload) = Trailer
  /\ Bytes(cisco.Contents) = APPacketHdr(1, 4, 0)

\* a header that declares more bytes than follow it was decoded
C22_WitnessLonger ==
  /\ res.op \in DecodeOps
  /\ res.ret = RetNil
  /\ \E n \in DeclaredLengths : n > Decoded.Payload.len

\* a header all of whose length fields declare fewer bytes than follow it was
\* decoded
C22_WitnessShorter ==
  /\ res.op \in DecodeOps
  /\ res.ret = RetNil
  /\ DeclaredLengths # {}
  /\ \A n \in DeclaredLengths : n < Decoded.Payload.len

\* the number of bytes the decoder of a layer takes off its input
Consumed(fn, data) ==
  CASE fn = "decodeCiscoAP" -> 12
    [] fn = "decodeOmniPeek" -> IF HasMagic(data) THEN PEEK_HDR1_SIZE ELSE PEEK_HDR0_SIZE
    [] fn = "decodeEAPOL" -> 4
    [] OTHER -> data.len

\* a layer of the packet of goroutine t is decoded and the builder has not
\* looked at the outcome yet
LayerDecoded(t) == goroutines[t].at = "returned" /\ goroutines[t].ret = RetNil

\* each successful decode leaves a Payload shorter than its input: by 12 bytes
\* for the wrapping message, 55 or 20 for the RF metadata, 4 for the 802.1X
\* header, and by the whole input, of at least one byte, for the key descriptor
ShorterPayload ==
  \A t \in Pipelines :
    LayerDecoded(t) =>
      /\ heap[goroutines[t].d].Payload.len =
           goroutines[t].data.len - Consumed(goroutines[t].fn, goroutines[t].data)
      /\ heap[goroutines[t].d].Payload.len < goroutines[t].data.len

\* what the builder hands to the decoder of the next layer is the Payload of
\* the layer before, and it is shorter than what that layer was handed; the
\* layers follow each other as wrapping message, RF metadata and 802.1X, key
HandsOnPayload ==
  \A t \in Pipelines :
    (goroutines[t].at = "returned" /\ goroutines'[t].at = "running") =>
       /\ goroutines'[t].data = heap[goroutines[t].d].Payload
       /\ goroutines'[t].data.len < goroutines[t].data.len
       /\ <<goroutines[t].fn, goroutines'[t].fn>> \in
            {<<"decodeCiscoAP", "decodeOmniPeek">>, <<"decodeEAPOL", "decodeEAPOLKey">>}

\* C23: each successful decode by the wrapping-message, RF-metadata, 802.1X
\* or key-exchange decoder hands on a Payload strictly shorter than its input
\* (by 12, 20 or 55, 4, and the whole input), every next layer is decoded from
\* that Payload, and a packet whose decoding has begun always comes to its end:
\* a layer decoded outside this package, a layer with no next layer, or an error.
C23_ChainTerminates ==
  /\ []ShorterPayload
  /\ [][HandsOnPayload]_vars
  /\ \A t \in Pipelines :
       (goroutines[t].at \in {"running", "returned"}) ~> (goroutines[t].at = "done")

\* goroutine 1 has decoded a wrapping message and the new style RF metadata
\* header in its Payload, whose next layer is the wireless frame, and is done
C23_Witness ==
  /\ goroutines[1].at = "done"
  /\ goroutines[1].fn = "decodeOmniPeek"
  /\ goroutines[1].ret = RetNil
  /\ goroutines[1].next = "LayerTypeDot11"
  /\ goroutines[1].data =
       Slice(Whole(APPacketHdr(1, 4, MaxPayload) \o Hdr1Buffer(ValidHdr1)), 12,
             12 + Len(Hdr1Buffer(ValidHdr1)))
  /\ Bytes(heap[1].Payload) = Trailer

\* goroutine 1 has decoded an 802.1X frame and the key descriptor in its
\* Payload, and is done
C23_WitnessKey ==
  /\ goroutines[1].at = "done"
  /\ goroutines[1].fn = "decodeEAPOLKey"
  /\ goroutines[1].ret = RetNil
  /\ goroutines[1].next = "LayerTypePayload"
  /\ goroutines[1].data.len = KeyDescriptorSize + MaxPayload
  /\ heap[1].Payload = NilSlice

\* the second layer of a packet failed
C23_WitnessError ==
  /\ goroutines[1].at = "done"
  /\ goroutines[1].fn = "decodeOmniPeek"
  /\ goroutines[1].ret.kind = "error"

\* x & y is not zero, for 16-bit x and y
AndNonZero(x, y) == \E n \in 0 .. 15 : Bit(x, n) = 1 /\ Bit(y, n) = 1

\* the bits of the key information that the decoder extracts into each field
FieldBits ==
  [KeyInfo_DescriptorVersion |-> {0, 1, 2}, KeyInfo_Type |-> {3}, KeyInfo_Install |-> {6},
   KeyInfo_ACK |-> {7}, KeyInfo_MIC |-> {8}, KeyInfo_Secure |-> {9}, KeyInfo_Error |-> {10},
   KeyInfo_Request |-> {11}, KeyInfo_EncryptedKeyData |-> {12}, KeyInfo_SMKMessage |-> {13}]

\* C24: the ten exported KeyInfo_* mask constants are pairwise distinct, each
\* has exactly the bits set that the decoder extracts into the field of the
\* same name, and for every key-information value decoded, the value AND the
\* constant is non-zero if and only if that field is non-zero.
C24_MaskConstants ==
  /\ \A f, g \in DOMAIN KeyInfoMaskConstants :
       f # g => KeyInfoMaskConstants[f] # KeyInfoMaskConstants[g]
  /\ \A f \in DOMAIN KeyInfoMaskConstants :
       {n \in 0 .. 15 : Bit(KeyInfoMaskConstants[f], n) = 1} = FieldBits[f]
  /\ KeyDecoded =>
       \A f \in DOMAIN KeyInfoMaskConstants :
          AndNonZero(key.KeyInfo, KeyInfoMaskConstants[f]) <=> key[f] # 0

\* the equivalence of C24 alone, without the demands on the constants
C24_MaskSelectsField ==
  KeyDecoded =>
    \A f \in DOMAIN KeyInfoMaskConstants :
       AndNonZero(key.KeyInfo, KeyInfoMaskConstants[f]) <=> key[f] # 0

\* a key information value of 8 is decoded: the Type field is 1, and the value
\* AND KeyInfo_Type is zero
C24_Witness ==
  /\ KeyDecoded
  /\ key.KeyInfo = 8
  /\ key.KeyInfo_Type = 1
  /\ ~AndNonZero(key.KeyInfo, KeyInfo_Type)

====
